---- MODULE Spec2Model ----
(***************************************************************************)
(* Matching engine: MatchingEngine.process_order dispatching orders to a   *)
(* per-symbol OrderBook, whose add_order matches an incoming order against *)
(* the opposite side of the book in price-time priority.                   *)
(*                                                                         *)
(* Python objects are modelled by identity: an Order object is named by    *)
(* its order_id (order_cache is the object store), a PriceLevel object by  *)
(* the id of the order whose resting created it (levels is the store).     *)
(* Decimal prices and quantities are integers; an absent value (None) is   *)
(* the empty sequence and a present value p is <<p>>.                      *)
(***************************************************************************)
EXTENDS Integers, Sequences, FiniteSets, TLC

\* ---------------------------------------------------------------- bounds
MaxOrders == 3      \* orders submitted in one run of the sequential engine
MaxPrice == 2       \* prices are 0..MaxPrice
MaxQty == 2         \* order quantities are 1..MaxQty
ConcMaxOrders == 3  \* orders submitted in one run with concurrent callers
ConcMaxQty == 2     \* order quantities with concurrent callers
MaxInFlight == 2    \* process_order calls in flight at once (asyncio.gather)
SnapMaxOrders == 2  \* orders submitted in one run beside a snapshot reader
MaxSnapshots == 2   \* get_order_book_state calls in one run
DepthMaxOrders == 3 \* orders submitted in one run of a caller that also
                    \* takes snapshots between its submits
LookupMaxOrders == 2 \* orders submitted in one run over two symbols
TwinMaxOrders == 6  \* orders submitted in one run of two books fed in pairs
CtorMaxOrders == 2  \* orders submitted in one run beside failed constructions
MaxRejected == 1    \* Order constructions that raise in one run
FirstMaxOrders == 3 \* orders submitted in one run of first-order requests
RouteMaxOrders == 6 \* orders submitted in one run, directly and by POST /order
PairMaxOrders == 3  \* orders submitted in one run over two symbols
HeapMaxOrders == 4  \* orders submitted in one run that builds three levels
WsMaxOrders == 2    \* orders submitted in one run beside the market-data server
WsConns == 2        \* websocket connections in one run
WsMaxMessages == 2  \* client messages handled in one run
WsMaxBroadcasts == 1 \* broadcast_* calls in one run
LevelMaxOrders == 2 \* orders submitted, and orders given to a PriceLevel, in one run
LevelMaxCalls == 3  \* remove_front_order calls on a PriceLevel in one run

\* ------------------------------------------------------ program constants
max_workers == 4    \* ThreadPoolExecutor(max_workers=4)
default_depth == 10 \* get_order_book_state(symbol, depth=10)

BUY == "buy"
SELL == "sell"
MARKET == "market"
LIMIT == "limit"
IOC == "ioc"
FOK == "fok"

None == <<>>
Some(x) == <<x>>

\* Python truth value of an Optional[Decimal]: None and Decimal('0') are false.
Truthy(p) == p # None /\ p[1] # 0

Min(a, b) == IF a <= b THEN a ELSE b

VARIABLES
    order_books,       \* MatchingEngine.order_books: symbol -> OrderBook
    trade_history,     \* MatchingEngine.trade_history: symbol -> list of Trade
    order_cache,       \* MatchingEngine.order_cache: order_id -> Order object
    processed_orders,  \* MatchingEngine.processed_orders
    levels,            \* the PriceLevel objects, by identity
    calls,             \* each caller's process_order call: position and locals
    submitted,         \* the orders as the callers constructed them, in
                       \* the order process_order accepted them
    cancelled,         \* order_id -> the residual its add_order dropped
    reader,            \* a get_order_book_state call: position and locals
    hook_calls,        \* the calls process_order has made to the market-data
                       \* server (broadcast_order_book_update,
                       \* broadcast_trade), in order
    results,           \* order_id -> what process_order gave its caller:
                       \* Some(trade list), or None for an error
    rejected,          \* the Order(...) arguments whose construction raised
                       \* ValueError, in order
    connections,       \* MarketDataWebSocket.connections
    subscriptions,     \* MarketDataWebSocket.subscriptions: connection -> set
    trade_subscriptions,  \* MarketDataWebSocket.trade_subscriptions
    price_level,       \* a PriceLevel object used on its own: the level, the
                       \* Order objects given to it, and what each
                       \* remove_front_order call returned
    peers              \* the clients: the state of each connection, the
                       \* subscription requests it has sent, the number of
                       \* messages handled and the broadcasts delivered

vars == <<order_books, trade_history, order_cache, processed_orders, levels,
          calls, submitted, cancelled, reader, hook_calls, results, rejected,
          connections, subscriptions, trade_subscriptions, peers, price_level>>

Callers == 1..MaxInFlight

Conns == 1..WsConns

\* ------------------------------------------------------------ heapq, list
\* heapq._siftdown(heap, startpos, pos), positions 0-based as in Python
RECURSIVE siftdown(_, _, _, _)
siftdown(heap, startpos, pos, newitem) ==
    LET parentpos == (pos - 1) \div 2 IN
    IF pos > startpos /\ newitem < heap[parentpos + 1]
    THEN siftdown([heap EXCEPT ![pos + 1] = heap[parentpos + 1]],
                  startpos, parentpos, newitem)
    ELSE [heap EXCEPT ![pos + 1] = newitem]

\* heapq._siftup(heap, pos): the loop that bubbles the smaller child up
RECURSIVE siftup_loop(_, _, _, _)
siftup_loop(heap, startpos, pos, newitem) ==
    LET endpos == Len(heap)
        childpos == 2 * pos + 1
        rightpos == childpos + 1
        c == IF rightpos < endpos /\ ~(heap[childpos + 1] < heap[rightpos + 1])
             THEN rightpos ELSE childpos
    IN IF childpos < endpos
       THEN siftup_loop([heap EXCEPT ![pos + 1] = heap[c + 1]],
                        startpos, c, newitem)
       ELSE siftdown([heap EXCEPT ![pos + 1] = newitem], startpos, pos, newitem)

siftup(heap, pos) == siftup_loop(heap, pos, pos, heap[pos + 1])

\* a push that appends without restoring the heap order
heappush_unsifted(heap, item) == Append(heap, item)

\* heapq.heappush(heap, item)
heappush(heap, item) ==
    siftdown(Append(heap, item), 0, Len(heap), item)

\* heapq.heapify(x): for i in reversed(range(n//2)): _siftup(x, i)
RECURSIVE heapify_from(_, _)
heapify_from(x, i) ==
    IF i < 0 THEN x ELSE heapify_from(siftup(x, i), i - 1)

heapify(x) == heapify_from(x, (Len(x) \div 2) - 1)

\* `item in list`
InList(list, item) == \E i \in 1..Len(list) : list[i] = item

\* list.remove(item): drops the first occurrence
ListRemove(list, item) ==
    LET i == CHOOSE k \in 1..Len(list) :
                 list[k] = item /\ \A j \in 1..(k - 1) : list[j] # item
    IN SubSeq(list, 1, i - 1) \o SubSeq(list, i + 1, Len(list))

\* dict without a key
DictDel(d, k) == [x \in (DOMAIN d) \ {k} |-> d[x]]

\* dict with d[k] = v
DictSet(d, k, v) == [x \in (DOMAIN d) \cup {k} |-> IF x = k THEN v ELSE d[x]]

\* ------------------------------------------------------------- PriceLevel
\* PriceLevel.__init__
NewPriceLevel(price) == [price |-> price, orders |-> <<>>, total_quantity |-> 0]

\* a level that queues the newest order first
PriceLevel_add_order_lifo(level, order) ==
    [level EXCEPT !.orders = <<order.order_id>> \o @,
                  !.total_quantity = @ + order.quantity]

\* a level that forgets to count the appended order
PriceLevel_add_order_uncounted(level, order) ==
    [level EXCEPT !.orders = Append(@, order.order_id)]

\* a level that queues the appended order twice
PriceLevel_add_order_twice(level, order) ==
    [level EXCEPT !.orders = Append(Append(@, order.order_id), order.order_id),
                  !.total_quantity = @ + order.quantity]

\* PriceLevel.add_order: the order object is appended by reference
PriceLevel_add_order(level, order) ==
    [level EXCEPT !.orders = Append(@, order.order_id),
                  !.total_quantity = @ + order.quantity]

\* a removal that leaves the head order in the queue
remove_front_order_keep(level, cache) == level

\* a removal that takes the head and leaves total_quantity as it was
remove_front_order_uncounted(level, cache) ==
    IF level.orders = <<>> THEN level
    ELSE [level EXCEPT !.orders = Tail(@)]

\* PriceLevel.remove_front_order, the level after the call; cache gives the
\* current fields of the Order objects
remove_front_order(level, cache) ==
    IF level.orders = <<>> THEN level
    ELSE [level EXCEPT !.orders = Tail(@),
                       !.total_quantity = @ - cache[Head(level.orders)].quantity]

\* PriceLevel.remove_front_order, the value returned: None for an empty
\* level (lines 23-24), else the order taken from the head (lines 25, 27)
remove_front_order_returns(level) ==
    IF level.orders = <<>> THEN None ELSE Some(Head(level.orders))

\* -------------------------------------------------------------- OrderBook
\* OrderBook.__init__
NewOrderBook ==
    [bids |-> <<>>, asks |-> <<>>, bid_prices |-> <<>>, ask_prices |-> <<>>,
     best_bid |-> None, best_ask |-> None]

\* a removal that leaves the emptied level in the map of its side
remove_price_level_map_keep(book, side, price) == book

\* OrderBook._remove_price_level, lines 180-181 and 187-188: the level
\* leaves the map of its side
remove_price_level_map(book, side, price) ==
    IF side = BUY
    THEN [book EXCEPT !.bids = DictDel(@, price)]
    ELSE [book EXCEPT !.asks = DictDel(@, price)]

\* a removal that leaves the price of the removed level in the heap
remove_price_level_heap_stale(book, side, price) == book

\* a removal that takes the price from the list and does not heapify
remove_price_level_heap_unordered(book, side, price) ==
    IF side = BUY
    THEN [book EXCEPT !.bid_prices = IF InList(@, -price)
                                     THEN ListRemove(@, -price) ELSE @]
    ELSE [book EXCEPT !.ask_prices = IF InList(@, price)
                                     THEN ListRemove(@, price) ELSE @]

\* OrderBook._remove_price_level, lines 183-185 and 189-191: the price
\* leaves the heap of its side, which is heapified again
remove_price_level_heap(book, side, price) ==
    IF side = BUY
    THEN [book EXCEPT !.bid_prices = IF InList(@, -price)
                                     THEN heapify(ListRemove(@, -price)) ELSE @]
    ELSE [book EXCEPT !.ask_prices = IF InList(@, price)
                                     THEN heapify(ListRemove(@, price)) ELSE @]

\* resting that keeps the order's submitted quantity instead of the residual
add_resting_order_full(book, lvls, cache, order_id, quantity) ==
    LET order == cache[order_id]
        p == order.price[1]
        side_map == IF order.side = BUY THEN book.bids ELSE book.asks
        fresh == p \notin DOMAIN side_map
        book1 == IF ~fresh THEN book
                 ELSE IF order.side = BUY
                 THEN [book EXCEPT !.bids = DictSet(@, p, order_id),
                                   !.bid_prices = heappush(@, -p)]
                 ELSE [book EXCEPT !.asks = DictSet(@, p, order_id),
                                   !.ask_prices = heappush(@, p)]
        lvls1 == IF fresh THEN DictSet(lvls, order_id, NewPriceLevel(p)) ELSE lvls
        l == IF order.side = BUY THEN book1.bids[p] ELSE book1.asks[p]
    IN [book |-> book1,
        levels |-> [lvls1 EXCEPT ![l] = PriceLevel_add_order(@, order)],
        cache |-> cache]

\* OrderBook._add_resting_order: the book, the PriceLevel objects and the
\* Order objects after the call (order.quantity = quantity is an assignment
\* to the shared Order object)
add_resting_order(book, lvls, cache, order_id, quantity) ==
    LET cache1 == [cache EXCEPT ![order_id].quantity = quantity]
        order == cache1[order_id]
        p == order.price[1]
    IN IF order.side = BUY
       THEN LET fresh == p \notin DOMAIN book.bids
                book1 == IF fresh
                         THEN [book EXCEPT !.bids = DictSet(@, p, order_id),
                                           !.bid_prices = heappush(@, -p)]
                         ELSE book
                lvls1 == IF fresh THEN DictSet(lvls, order_id, NewPriceLevel(p))
                         ELSE lvls
                l == book1.bids[p]
            IN [book |-> book1,
                levels |-> [lvls1 EXCEPT ![l] = PriceLevel_add_order(@, order)],
                cache |-> cache1]
       ELSE LET fresh == p \notin DOMAIN book.asks
                book1 == IF fresh
                         THEN [book EXCEPT !.asks = DictSet(@, p, order_id),
                                           !.ask_prices = heappush(@, p)]
                         ELSE book
                lvls1 == IF fresh THEN DictSet(lvls, order_id, NewPriceLevel(p))
                         ELSE lvls
                l == book1.asks[p]
            IN [book |-> book1,
                levels |-> [lvls1 EXCEPT ![l] = PriceLevel_add_order(@, order)],
                cache |-> cache1]

\* OrderBook._can_fill_immediately raises TypeError: the opposite side is
\* not empty and `order.price >= ...` compares None with a Decimal
can_fill_raises(book, order) ==
    /\ order.order_type # MARKET
    /\ order.price = None
    /\ IF order.side = BUY THEN book.ask_prices # <<>> ELSE book.bid_prices # <<>>

\* OrderBook._can_fill_immediately
can_fill_immediately(book, order) ==
    IF order.side = BUY
    THEN IF book.ask_prices = <<>> THEN FALSE
         ELSE IF order.order_type = MARKET THEN TRUE
         ELSE order.price[1] >= book.ask_prices[1]
    ELSE IF book.bid_prices = <<>> THEN FALSE
         ELSE IF order.order_type = MARKET THEN TRUE
         ELSE order.price[1] <= -book.bid_prices[1]

\* a refresh that caches price 0 for an empty side instead of None
update_bbo_zero(book) ==
    [book EXCEPT
       !.best_bid = IF book.bid_prices # <<>>
                    THEN Some(-book.bid_prices[1]) ELSE Some(0),
       !.best_ask = IF book.ask_prices # <<>>
                    THEN Some(book.ask_prices[1]) ELSE Some(0)]

\* OrderBook._update_bbo
update_bbo(book) ==
    [book EXCEPT
       !.best_bid = IF book.bid_prices # <<>>
                    THEN Some(-book.bid_prices[1]) ELSE None,
       !.best_ask = IF book.ask_prices # <<>>
                    THEN Some(book.ask_prices[1]) ELSE None]

\* a trade that names the taker as maker and the maker as taker
Trade_swapped(symbol, price, quantity, aggressor_side, maker_order_id, taker_order_id) ==
    [symbol |-> symbol, price |-> price, quantity |-> quantity,
     aggressor_side |-> aggressor_side, maker_order_id |-> taker_order_id,
     taker_order_id |-> maker_order_id]

\* Trade(...): trade_id and timestamp are fresh values no operation reads
Trade(symbol, price, quantity, aggressor_side, maker_order_id, taker_order_id) ==
    [symbol |-> symbol, price |-> price, quantity |-> quantity,
     aggressor_side |-> aggressor_side, maker_order_id |-> maker_order_id,
     taker_order_id |-> taker_order_id]

\* -------------------------------------------------------------- snapshots
\* str(Decimal) of a price or a quantity
str(d) == ToString(d)

\* sorted(list) of numbers, ascending
RECURSIVE sorted(_)
sorted(list) ==
    IF list = <<>> THEN <<>>
    ELSE LET S == {list[i] : i \in 1..Len(list)}
             m == CHOOSE x \in S : \A y \in S : x <= y
         IN <<m>> \o sorted(ListRemove(list, m))

\* OrderBook.get_bbo
get_bbo(book) == <<book.best_bid, book.best_ask>>

\* OrderBook.get_depth raises KeyError: a price of a heap has no level in
\* the map of its side
get_depth_raises(book) ==
    \/ \E i \in 1..Len(book.bid_prices) : -book.bid_prices[i] \notin DOMAIN book.bids
    \/ \E i \in 1..Len(book.ask_prices) : book.ask_prices[i] \notin DOMAIN book.asks

\* a depth query that lists the levels in heap order, without sorting
get_depth_heap_order(book, lvls, n) ==
    LET bid_prices_sorted == book.bid_prices
        ask_prices_sorted == book.ask_prices
        row(price, level) == <<str(price), str(lvls[level].total_quantity)>>
    IN [bids |-> [i \in 1..Min(n, Len(bid_prices_sorted)) |->
                    row(-bid_prices_sorted[i], book.bids[-bid_prices_sorted[i]])],
        asks |-> [i \in 1..Min(n, Len(ask_prices_sorted)) |->
                    row(ask_prices_sorted[i], book.asks[ask_prices_sorted[i]])]]

\* OrderBook.get_depth(n) for n >= 0: the best n levels of each side, bids
\* by descending and asks by ascending price (bid_prices holds the negated
\* prices), as [str(price), str(total_quantity)] rows
get_depth(book, lvls, n) ==
    LET bid_prices_sorted == sorted(book.bid_prices)
        ask_prices_sorted == sorted(book.ask_prices)
        row(price, level) == <<str(price), str(lvls[level].total_quantity)>>
    IN [bids |-> [i \in 1..Min(n, Len(bid_prices_sorted)) |->
                    row(-bid_prices_sorted[i], book.bids[-bid_prices_sorted[i]])],
        asks |-> [i \in 1..Min(n, Len(ask_prices_sorted)) |->
                    row(ask_prices_sorted[i], book.asks[ask_prices_sorted[i]])]]

\* MatchingEngine.get_order_book_state, lines 55-62: the returned dict (the
\* timestamp is a fresh value no operation reads); `str(x) if x else None`
order_book_state(symbol, bbo, depth_data) ==
    [symbol |-> symbol,
     best_bid |-> IF Truthy(bbo[1]) THEN Some(str(bbo[1][1])) ELSE None,
     best_ask |-> IF Truthy(bbo[2]) THEN Some(str(bbo[2][1])) ELSE None,
     bids |-> depth_data.bids,
     asks |-> depth_data.asks]

\* ------------------------------------------------------------------ calls
\* A call's position (pc) and the locals of _match_buy_order /
\* _match_sell_order. pc: idle (no call), start (add_order queued on the
\* pool), outer, inner, cleanup, unheap, outer_end, rest, bbo (inside
\* add_order), ret (add_order has returned, the coroutine has not resumed),
\* raised (add_order has raised, the coroutine has not resumed), count
\* (processed_orders has been loaded, not yet stored). before records the
\* engine as process_order found it (kept until add_order returns), entry
\* the book, the PriceLevel objects and the Order objects as add_order
\* found them. book names the OrderBook object the call took from
\* order_books (line 30): the key the object has in order_books.
IdleCall ==
    [pc |-> "idle", order |-> 0, remaining_quantity |-> 0, trades |-> <<>>,
     best_price |-> 0, level |-> 0, resting_order |-> 0, loaded |-> 0,
     book |-> "", before |-> <<>>, entry |-> <<>>]

\* A get_order_book_state call. pc: idle (no call yet), depth (the BBO has
\* been read, get_depth has not run), done (the call has returned result,
\* None or Some(snapshot), or has raised); taken counts the calls.
IdleReader ==
    [pc |-> "idle", symbol |-> "", depth |-> 0, bbo |-> <<>>, result |-> None,
     raised |-> FALSE, taken |-> 0]

\* a call whose add_order has raised: the locals of the matching function,
\* the trades produced so far among them, are lost
RaisedCall(c) ==
    [IdleCall EXCEPT !.pc = "raised", !.order = c.order, !.before = c.before,
                     !.entry = c.entry, !.book = c.book]

\* the Order object a call is processing
OrderOf(t) == order_cache[calls[t].order]

\* the OrderBook a call's add_order runs on
BookOf(t) == order_books[calls[t].book]

\* positions inside OrderBook.add_order
InAddOrder == {"outer", "inner", "cleanup", "unheap", "outer_end", "rest", "bbo"}

\* a worker thread of the pool is free to take the queued add_order
WorkerFree == Cardinality({u \in Callers : calls[u].pc \in InAddOrder}) < max_workers

Init ==
    /\ order_books = <<>>
    /\ trade_history = <<>>
    /\ order_cache = <<>>
    /\ processed_orders = 0
    /\ levels = <<>>
    /\ calls = [t \in Callers |-> IdleCall]
    /\ submitted = <<>>
    /\ cancelled = <<>>
    /\ reader = IdleReader
    /\ hook_calls = <<>>
    /\ results = <<>>
    /\ rejected = <<>>
    /\ price_level = [level |-> NewPriceLevel(1), orders |-> <<>>,
                      returned |-> <<>>]
    /\ connections = {}
    /\ subscriptions = <<>>
    /\ trade_subscriptions = <<>>
    /\ peers = [state |-> [c \in Conns |-> "new"],
                requests |-> [c \in Conns |-> <<>>],
                handled |-> 0,
                sent |-> <<>>]

\* ------------------------------------------------------------- the inputs
Symbols == {"BTC-USDT"}
Prices == 0..MaxPrice

\* Order.__post_init__: a LIMIT order has a price, the quantity is positive.
\* MARKET orders carry no price; IOC and FOK orders carry their limit.
OrderInputs(syms, prices, qtys) ==
    [symbol : syms, order_type : {MARKET}, side : {BUY, SELL},
     quantity : qtys, price : {None}]
    \cup
    [symbol : syms, order_type : {LIMIT, IOC, FOK}, side : {BUY, SELL},
     quantity : qtys, price : {Some(p) : p \in prices}]

SeqInputs == OrderInputs(Symbols, Prices, 1..MaxQty)

\* a constructor that does not look at the quantity
Order_post_init_any_quantity(o) ==
    /\ ~(o.order_type = LIMIT /\ o.price = None)

\* Order.__post_init__: the construction succeeds (no ValueError)
Order_post_init(o) ==
    /\ ~(o.order_type = LIMIT /\ o.price = None)
    /\ o.quantity > 0

\* every order the constructor accepts, a priced MARKET order and an IOC or
\* FOK order without a price included
AllInputs ==
    {o \in [symbol : Symbols, order_type : {MARKET, LIMIT, IOC, FOK},
            side : {BUY, SELL}, quantity : 0..MaxQty,
            price : {None} \cup {Some(p) : p \in Prices}] : Order_post_init(o)}
\* with callers running together: LIMIT and MARKET orders at one price
ConcInputs ==
    {o \in OrderInputs(Symbols, 1..1, 1..ConcMaxQty) :
       o.order_type \in {MARKET, LIMIT}}

\* ------------------------------------------- MatchingEngine.process_order
\* process_order up to the await: the book is created on first use, the
\* order is cached and add_order is handed to the thread pool
ProcessOrder(t, inputs, limit) ==
    /\ calls[t].pc = "idle"
    /\ Len(submitted) < limit
    /\ \E o \in inputs :
         LET id == Len(submitted) + 1
             order == [order_id |-> id, symbol |-> o.symbol,
                       order_type |-> o.order_type, side |-> o.side,
                       quantity |-> o.quantity, price |-> o.price]
             symbol == order.symbol
             known == symbol \in DOMAIN order_books
         IN /\ submitted' = Append(submitted, order)
            /\ order_books' = IF known THEN order_books
                              ELSE DictSet(order_books, symbol, NewOrderBook)
            /\ trade_history' = IF known THEN trade_history
                                ELSE DictSet(trade_history, symbol, <<>>)
            /\ order_cache' = DictSet(order_cache, id, order)
            /\ calls' = [calls EXCEPT ![t] =
                  [IdleCall EXCEPT
                     !.pc = "start", !.order = id, !.book = symbol,
                     !.before = [order_books |-> order_books,
                                 trade_history |-> trade_history,
                                 order_cache |-> order_cache,
                                 processed_orders |-> processed_orders,
                                 levels |-> levels]]]
    /\ UNCHANGED <<processed_orders, levels, cancelled, reader, hook_calls, results,
                   rejected,
                   connections, subscriptions, trade_subscriptions, peers,
                   price_level>>

\* ------------------------------------------- OrderBook._match_buy_order
\* lines 52-58: the IOC/FOK feasibility check, which returns no trade, goes
\* on to the matching loop, or raises
MatchBuyStart(t) ==
    /\ calls[t].pc = "start"
    /\ OrderOf(t).side = BUY
    /\ WorkerFree
    /\ LET order == OrderOf(t)
           raises == /\ order.order_type \in {IOC, FOK}
                     /\ can_fill_raises(BookOf(t), order)
           infeasible == /\ order.order_type \in {IOC, FOK}
                         /\ ~raises
                         /\ ~can_fill_immediately(BookOf(t), order)
       IN /\ calls' = [calls EXCEPT
                         ![t].remaining_quantity = order.quantity,
                         ![t].entry = [book |-> BookOf(t), levels |-> levels,
                                       cache |-> order_cache],
                         ![t].pc = IF raises THEN "raised"
                                   ELSE IF infeasible THEN "bbo" ELSE "outer"]
          /\ cancelled' = IF infeasible
                          THEN DictSet(cancelled, order.order_id, order.quantity)
                          ELSE cancelled
    /\ UNCHANGED <<order_books, trade_history, order_cache, processed_orders,
                   levels, submitted, reader, hook_calls, results,
                   rejected,
                   connections, subscriptions, trade_subscriptions, peers,
                   price_level>>

\* a loop test that lets the price of a MARKET order cap the sweep
MatchBuyOuter_capped(t) ==
    /\ calls[t].pc = "outer"
    /\ OrderOf(t).side = BUY
    /\ LET order == OrderOf(t)
           book == BookOf(t)
           go == /\ calls[t].remaining_quantity > 0
                 /\ book.ask_prices # <<>>
                 /\ \/ (order.order_type = MARKET /\ order.price = None)
                    \/ (Truthy(order.price) /\ order.price[1] >= book.ask_prices[1])
       IN calls' = IF go /\ book.ask_prices[1] \notin DOMAIN book.asks
                   THEN [calls EXCEPT ![t] = RaisedCall(calls[t])]
                   ELSE IF go
                   THEN [calls EXCEPT
                           ![t].best_price = book.ask_prices[1],
                           ![t].level = book.asks[book.ask_prices[1]],
                           ![t].pc = "inner"]
                   ELSE [calls EXCEPT ![t].pc = "rest"]
    /\ UNCHANGED <<order_books, trade_history, order_cache, processed_orders,
                   levels, submitted, cancelled, reader, hook_calls, results,
                   rejected,
                   connections, subscriptions, trade_subscriptions, peers,
                   price_level>>

\* lines 61-66: the outer loop's test, then the best ask level is bound;
\* self.asks[best_ask_price] raises KeyError when another thread has taken
\* the level from the map and not yet its price from the heap
MatchBuyOuter(t) ==
    /\ calls[t].pc = "outer"
    /\ OrderOf(t).side = BUY
    /\ LET order == OrderOf(t)
           book == BookOf(t)
           go == /\ calls[t].remaining_quantity > 0
                 /\ book.ask_prices # <<>>
                 /\ \/ order.order_type = MARKET
                    \/ (Truthy(order.price) /\ order.price[1] >= book.ask_prices[1])
       IN calls' = IF go /\ book.ask_prices[1] \notin DOMAIN book.asks
                   THEN [calls EXCEPT ![t] = RaisedCall(calls[t])]
                   ELSE IF go
                   THEN [calls EXCEPT
                           ![t].best_price = book.ask_prices[1],
                           ![t].level = book.asks[book.ask_prices[1]],
                           ![t].pc = "inner"]
                   ELSE [calls EXCEPT ![t].pc = "rest"]
    /\ UNCHANGED <<order_books, trade_history, order_cache, processed_orders,
                   levels, submitted, cancelled, reader, hook_calls, results,
                   rejected,
                   connections, subscriptions, trade_subscriptions, peers,
                   price_level>>

\* lines 68-87: the inner loop's test, then one trade against the head of
\* the level
MatchBuyTrade(t) ==
    /\ calls[t].pc = "inner"
    /\ OrderOf(t).side = BUY
    /\ LET order == OrderOf(t)
           c == calls[t]
           ask_level == levels[c.level]
       IN IF ask_level.orders # <<>> /\ c.remaining_quantity > 0
          THEN LET resting_order == order_cache[Head(ask_level.orders)]
                   trade_quantity == Min(c.remaining_quantity, resting_order.quantity)
                   trade == Trade(order.symbol, resting_order.price[1],
                                  trade_quantity, order.side,
                                  resting_order.order_id, order.order_id)
               IN /\ calls' = [calls EXCEPT
                                 ![t].trades = Append(@, trade),
                                 ![t].remaining_quantity = @ - trade_quantity,
                                 ![t].resting_order = resting_order.order_id,
                                 ![t].pc = "cleanup"]
                  /\ order_cache' = [order_cache EXCEPT
                                       ![resting_order.order_id].quantity =
                                           @ - trade_quantity]
                  /\ levels' = [levels EXCEPT
                                  ![c.level].total_quantity = @ - trade_quantity]
          ELSE /\ calls' = [calls EXCEPT ![t].pc = "outer_end"]
               /\ UNCHANGED <<order_cache, levels>>
    /\ UNCHANGED <<order_books, trade_history, processed_orders, submitted, cancelled,
                   reader, hook_calls, results,
                   rejected,
                   connections, subscriptions, trade_subscriptions, peers,
                   price_level>>

\* a cleanup that takes the maker from its level after every trade
MatchBuyCleanup_always_pop(t) ==
    /\ calls[t].pc = "cleanup"
    /\ OrderOf(t).side = BUY
    /\ LET c == calls[t]
           ask_level == remove_front_order(levels[c.level], order_cache)
       IN /\ levels' = [levels EXCEPT ![c.level] = ask_level]
          /\ IF ask_level.orders = <<>> /\ c.best_price \in DOMAIN BookOf(t).asks
             THEN /\ order_books' = [order_books EXCEPT ![calls[t].book] =
                                       remove_price_level_map(@, SELL, c.best_price)]
                  /\ calls' = [calls EXCEPT ![t].pc = "unheap"]
             ELSE /\ calls' = [calls EXCEPT ![t].pc =
                                 IF ask_level.orders = <<>> THEN "outer_end"
                                 ELSE "inner"]
                  /\ UNCHANGED order_books
    /\ UNCHANGED <<trade_history, order_cache, processed_orders, submitted, cancelled,
                   reader, hook_calls, results,
                   rejected,
                   connections, subscriptions, trade_subscriptions, peers,
                   price_level>>

\* lines 89-96: the filled maker leaves the level, the empty level the map
\* of its side (_remove_price_level, first half)
MatchBuyCleanup(t) ==
    /\ calls[t].pc = "cleanup"
    /\ OrderOf(t).side = BUY
    /\ LET c == calls[t]
           ask_level == IF order_cache[c.resting_order].quantity = 0
                        THEN remove_front_order(levels[c.level], order_cache)
                        ELSE levels[c.level]
       IN /\ levels' = [levels EXCEPT ![c.level] = ask_level]
          /\ IF ask_level.orders = <<>> /\ c.best_price \in DOMAIN BookOf(t).asks
             THEN /\ order_books' = [order_books EXCEPT ![calls[t].book] =
                                       remove_price_level_map(@, SELL, c.best_price)]
                  /\ calls' = [calls EXCEPT ![t].pc = "unheap"]
             ELSE /\ calls' = [calls EXCEPT ![t].pc =
                                 IF ask_level.orders = <<>> THEN "outer_end"
                                 ELSE "inner"]
                  /\ UNCHANGED order_books
    /\ UNCHANGED <<trade_history, order_cache, processed_orders, submitted, cancelled,
                   reader, hook_calls, results,
                   rejected,
                   connections, subscriptions, trade_subscriptions, peers,
                   price_level>>

\* _remove_price_level, second half: the price of the removed level leaves
\* the heap; then the inner loop is left (break)
MatchBuyUnheap(t) ==
    /\ calls[t].pc = "unheap"
    /\ OrderOf(t).side = BUY
    /\ order_books' = [order_books EXCEPT ![calls[t].book] =
                         remove_price_level_heap(@, SELL, calls[t].best_price)]
    /\ calls' = [calls EXCEPT ![t].pc = "outer_end"]
    /\ UNCHANGED <<trade_history, order_cache, processed_orders, levels,
                   submitted, cancelled, reader, hook_calls, results,
                   rejected,
                   connections, subscriptions, trade_subscriptions, peers,
                   price_level>>

\* lines 98-99
MatchBuyOuterEnd(t) ==
    /\ calls[t].pc = "outer_end"
    /\ OrderOf(t).side = BUY
    /\ calls' = [calls EXCEPT ![t].pc =
                   IF BookOf(t).ask_prices = <<>> THEN "rest" ELSE "outer"]
    /\ UNCHANGED <<order_books, trade_history, order_cache, processed_orders,
                   levels, submitted, cancelled, reader, hook_calls, results,
                   rejected,
                   connections, subscriptions, trade_subscriptions, peers,
                   price_level>>

\* an engine that rests the residual of an IOC order like a LIMIT residual
MatchBuyRest_ioc(t) ==
    /\ calls[t].pc = "rest"
    /\ OrderOf(t).side = BUY
    /\ LET c == calls[t]
           order == OrderOf(t)
           r == add_resting_order(BookOf(t), levels, order_cache, c.order,
                                  c.remaining_quantity)
       IN IF c.remaining_quantity > 0 /\ order.order_type \in {LIMIT, IOC}
          THEN /\ order_books' = [order_books EXCEPT ![calls[t].book] = r.book]
               /\ levels' = r.levels
               /\ order_cache' = r.cache
               /\ UNCHANGED cancelled
          ELSE /\ cancelled' = IF c.remaining_quantity > 0
                               THEN DictSet(cancelled, c.order, c.remaining_quantity)
                               ELSE cancelled
               /\ UNCHANGED <<order_books, levels, order_cache>>
    /\ calls' = [calls EXCEPT ![t].pc = "bbo"]
    /\ UNCHANGED <<trade_history, processed_orders, submitted,
                   reader, hook_calls, results,
                   rejected,
                   connections, subscriptions, trade_subscriptions, peers,
                   price_level>>

\* lines 101-107: a LIMIT residual rests, any other residual is dropped
MatchBuyRest(t) ==
    /\ calls[t].pc = "rest"
    /\ OrderOf(t).side = BUY
    /\ LET c == calls[t]
           order == OrderOf(t)
           r == add_resting_order(BookOf(t), levels, order_cache, c.order,
                                  c.remaining_quantity)
       IN IF c.remaining_quantity > 0 /\ order.order_type = LIMIT
          THEN /\ order_books' = [order_books EXCEPT ![calls[t].book] = r.book]
               /\ levels' = r.levels
               /\ order_cache' = r.cache
               /\ UNCHANGED cancelled
          ELSE /\ cancelled' = IF c.remaining_quantity > 0
                               THEN DictSet(cancelled, c.order, c.remaining_quantity)
                               ELSE cancelled
               /\ UNCHANGED <<order_books, levels, order_cache>>
    /\ calls' = [calls EXCEPT ![t].pc = "bbo"]
    /\ UNCHANGED <<trade_history, processed_orders, submitted,
                   reader, hook_calls, results,
                   rejected,
                   connections, subscriptions, trade_subscriptions, peers,
                   price_level>>

\* ------------------------------------------ OrderBook._match_sell_order
\* lines 110-116: the IOC/FOK feasibility check, which returns no trade,
\* goes on to the matching loop, or raises
MatchSellStart(t) ==
    /\ calls[t].pc = "start"
    /\ OrderOf(t).side # BUY
    /\ WorkerFree
    /\ LET order == OrderOf(t)
           raises == /\ order.order_type \in {IOC, FOK}
                     /\ can_fill_raises(BookOf(t), order)
           infeasible == /\ order.order_type \in {IOC, FOK}
                         /\ ~raises
                         /\ ~can_fill_immediately(BookOf(t), order)
       IN /\ calls' = [calls EXCEPT
                         ![t].remaining_quantity = order.quantity,
                         ![t].entry = [book |-> BookOf(t), levels |-> levels,
                                       cache |-> order_cache],
                         ![t].pc = IF raises THEN "raised"
                                   ELSE IF infeasible THEN "bbo" ELSE "outer"]
          /\ cancelled' = IF infeasible
                          THEN DictSet(cancelled, order.order_id, order.quantity)
                          ELSE cancelled
    /\ UNCHANGED <<order_books, trade_history, order_cache, processed_orders,
                   levels, submitted, reader, hook_calls, results,
                   rejected,
                   connections, subscriptions, trade_subscriptions, peers,
                   price_level>>

\* lines 119-124: the outer loop's test, then the best bid level is bound
\* (bid_prices holds the negated prices); self.bids[best_bid_price] raises
\* KeyError when another thread has taken the level from the map and not
\* yet its price from the heap
MatchSellOuter(t) ==
    /\ calls[t].pc = "outer"
    /\ OrderOf(t).side # BUY
    /\ LET order == OrderOf(t)
           book == BookOf(t)
           go == /\ calls[t].remaining_quantity > 0
                 /\ book.bid_prices # <<>>
                 /\ \/ order.order_type = MARKET
                    \/ (Truthy(order.price) /\ order.price[1] <= -book.bid_prices[1])
       IN calls' = IF go /\ -book.bid_prices[1] \notin DOMAIN book.bids
                   THEN [calls EXCEPT ![t] = RaisedCall(calls[t])]
                   ELSE IF go
                   THEN [calls EXCEPT
                           ![t].best_price = -book.bid_prices[1],
                           ![t].level = book.bids[-book.bid_prices[1]],
                           ![t].pc = "inner"]
                   ELSE [calls EXCEPT ![t].pc = "rest"]
    /\ UNCHANGED <<order_books, trade_history, order_cache, processed_orders,
                   levels, submitted, cancelled, reader, hook_calls, results,
                   rejected,
                   connections, subscriptions, trade_subscriptions, peers,
                   price_level>>

\* lines 126-143: the inner loop's test, then one trade against the head of
\* the level
MatchSellTrade(t) ==
    /\ calls[t].pc = "inner"
    /\ OrderOf(t).side # BUY
    /\ LET order == OrderOf(t)
           c == calls[t]
           bid_level == levels[c.level]
       IN IF bid_level.orders # <<>> /\ c.remaining_quantity > 0
          THEN LET resting_order == order_cache[Head(bid_level.orders)]
                   trade_quantity == Min(c.remaining_quantity, resting_order.quantity)
                   trade == Trade(order.symbol, resting_order.price[1],
                                  trade_quantity, order.side,
                                  resting_order.order_id, order.order_id)
               IN /\ calls' = [calls EXCEPT
                                 ![t].trades = Append(@, trade),
                                 ![t].remaining_quantity = @ - trade_quantity,
                                 ![t].resting_order = resting_order.order_id,
                                 ![t].pc = "cleanup"]
                  /\ order_cache' = [order_cache EXCEPT
                                       ![resting_order.order_id].quantity =
                                           @ - trade_quantity]
                  /\ levels' = [levels EXCEPT
                                  ![c.level].total_quantity = @ - trade_quantity]
          ELSE /\ calls' = [calls EXCEPT ![t].pc = "outer_end"]
               /\ UNCHANGED <<order_cache, levels>>
    /\ UNCHANGED <<order_books, trade_history, processed_orders, submitted, cancelled,
                   reader, hook_calls, results,
                   rejected,
                   connections, subscriptions, trade_subscriptions, peers,
                   price_level>>

\* lines 145-150: the filled maker leaves the level, the empty level the map
\* of its side (_remove_price_level, first half)
MatchSellCleanup(t) ==
    /\ calls[t].pc = "cleanup"
    /\ OrderOf(t).side # BUY
    /\ LET c == calls[t]
           bid_level == IF order_cache[c.resting_order].quantity = 0
                        THEN remove_front_order(levels[c.level], order_cache)
                        ELSE levels[c.level]
       IN /\ levels' = [levels EXCEPT ![c.level] = bid_level]
          /\ IF bid_level.orders = <<>> /\ c.best_price \in DOMAIN BookOf(t).bids
             THEN /\ order_books' = [order_books EXCEPT ![calls[t].book] =
                                       remove_price_level_map(@, BUY, c.best_price)]
                  /\ calls' = [calls EXCEPT ![t].pc = "unheap"]
             ELSE /\ calls' = [calls EXCEPT ![t].pc =
                                 IF bid_level.orders = <<>> THEN "outer_end"
                                 ELSE "inner"]
                  /\ UNCHANGED order_books
    /\ UNCHANGED <<trade_history, order_cache, processed_orders, submitted, cancelled,
                   reader, hook_calls, results,
                   rejected,
                   connections, subscriptions, trade_subscriptions, peers,
                   price_level>>

\* _remove_price_level, second half: the price of the removed level leaves
\* the heap; then the inner loop is left (break)
MatchSellUnheap(t) ==
    /\ calls[t].pc = "unheap"
    /\ OrderOf(t).side # BUY
    /\ order_books' = [order_books EXCEPT ![calls[t].book] =
                         remove_price_level_heap(@, BUY, calls[t].best_price)]
    /\ calls' = [calls EXCEPT ![t].pc = "outer_end"]
    /\ UNCHANGED <<trade_history, order_cache, processed_orders, levels,
                   submitted, cancelled, reader, hook_calls, results,
                   rejected,
                   connections, subscriptions, trade_subscriptions, peers,
                   price_level>>

\* lines 152-153
MatchSellOuterEnd(t) ==
    /\ calls[t].pc = "outer_end"
    /\ OrderOf(t).side # BUY
    /\ calls' = [calls EXCEPT ![t].pc =
                   IF BookOf(t).bid_prices = <<>> THEN "rest" ELSE "outer"]
    /\ UNCHANGED <<order_books, trade_history, order_cache, processed_orders,
                   levels, submitted, cancelled, reader, hook_calls, results,
                   rejected,
                   connections, subscriptions, trade_subscriptions, peers,
                   price_level>>

\* an engine that rests the residual of an IOC order like a LIMIT residual
MatchSellRest_ioc(t) ==
    /\ calls[t].pc = "rest"
    /\ OrderOf(t).side # BUY
    /\ LET c == calls[t]
           order == OrderOf(t)
           r == add_resting_order(BookOf(t), levels, order_cache, c.order,
                                  c.remaining_quantity)
       IN IF c.remaining_quantity > 0 /\ order.order_type \in {LIMIT, IOC}
          THEN /\ order_books' = [order_books EXCEPT ![calls[t].book] = r.book]
               /\ levels' = r.levels
               /\ order_cache' = r.cache
               /\ UNCHANGED cancelled
          ELSE /\ cancelled' = IF c.remaining_quantity > 0
                               THEN DictSet(cancelled, c.order, c.remaining_quantity)
                               ELSE cancelled
               /\ UNCHANGED <<order_books, levels, order_cache>>
    /\ calls' = [calls EXCEPT ![t].pc = "bbo"]
    /\ UNCHANGED <<trade_history, processed_orders, submitted,
                   reader, hook_calls, results,
                   rejected,
                   connections, subscriptions, trade_subscriptions, peers,
                   price_level>>

\* lines 155-159: a LIMIT residual rests, any other residual is dropped
MatchSellRest(t) ==
    /\ calls[t].pc = "rest"
    /\ OrderOf(t).side # BUY
    /\ LET c == calls[t]
           order == OrderOf(t)
           r == add_resting_order(BookOf(t), levels, order_cache, c.order,
                                  c.remaining_quantity)
       IN IF c.remaining_quantity > 0 /\ order.order_type = LIMIT
          THEN /\ order_books' = [order_books EXCEPT ![calls[t].book] = r.book]
               /\ levels' = r.levels
               /\ order_cache' = r.cache
               /\ UNCHANGED cancelled
          ELSE /\ cancelled' = IF c.remaining_quantity > 0
                               THEN DictSet(cancelled, c.order, c.remaining_quantity)
                               ELSE cancelled
               /\ UNCHANGED <<order_books, levels, order_cache>>
    /\ calls' = [calls EXCEPT ![t].pc = "bbo"]
    /\ UNCHANGED <<trade_history, processed_orders, submitted,
                   reader, hook_calls, results,
                   rejected,
                   connections, subscriptions, trade_subscriptions, peers,
                   price_level>>

\* ------------------------------------------------- OrderBook.add_order
\* lines 48-49: the BBO cache is refreshed and the trades are returned.
\* The locals of the matching function are dead from here on.
AddOrderReturn(t) ==
    /\ calls[t].pc = "bbo"
    /\ order_books' = [order_books EXCEPT ![calls[t].book] = update_bbo(@)]
    /\ calls' = [calls EXCEPT ![t] = [IdleCall EXCEPT !.pc = "ret",
                                                     !.order = calls[t].order,
                                                     !.book = calls[t].book,
                                                     !.trades = calls[t].trades,
                                                     !.entry = calls[t].entry]]
    /\ UNCHANGED <<trade_history, order_cache, processed_orders, levels, submitted, cancelled,
                   reader, hook_calls, results,
                   rejected,
                   connections, subscriptions, trade_subscriptions, peers,
                   price_level>>

\* a return that appends the trades to the history of every symbol
ProcessOrderReturn_every_history(t) ==
    /\ calls[t].pc \in {"ret", "raised"}
    /\ IF calls[t].pc = "ret"
       THEN /\ trade_history' = [s \in DOMAIN trade_history |->
                                   trade_history[s] \o calls[t].trades]
            /\ processed_orders' = processed_orders + 1
            /\ results' = DictSet(results, calls[t].order, Some(calls[t].trades))
       ELSE /\ results' = DictSet(results, calls[t].order, None)
            /\ UNCHANGED <<trade_history, processed_orders>>
    /\ calls' = [calls EXCEPT ![t] = IdleCall]
    /\ UNCHANGED <<order_books, order_cache, levels, submitted, cancelled,
                   reader, hook_calls,
                   rejected,
                   connections, subscriptions, trade_subscriptions, peers,
                   price_level>>

\* process_order after the await: the trades join the symbol's history and
\* the call is counted; when add_order raised, the await raises and
\* process_order passes the error on to its caller
ProcessOrderReturn(t) ==
    /\ calls[t].pc \in {"ret", "raised"}
    /\ IF calls[t].pc = "ret"
       THEN /\ trade_history' = [trade_history EXCEPT ![OrderOf(t).symbol] =
                                   @ \o calls[t].trades]
            /\ processed_orders' = processed_orders + 1
            /\ results' = DictSet(results, calls[t].order, Some(calls[t].trades))
       ELSE /\ results' = DictSet(results, calls[t].order, None)
            /\ UNCHANGED <<trade_history, processed_orders>>
    /\ calls' = [calls EXCEPT ![t] = IdleCall]
    /\ UNCHANGED <<order_books, order_cache, levels, submitted, cancelled,
                   reader, hook_calls,
                   rejected,
                   connections, subscriptions, trade_subscriptions, peers,
                   price_level>>

\* OrderBook.add_order on a worker thread, statement by statement
AddOrder(t) ==
    \/ MatchBuyStart(t)
    \/ MatchBuyOuter(t)
    \/ MatchBuyTrade(t)
    \/ MatchBuyCleanup(t)
    \/ MatchBuyUnheap(t)
    \/ MatchBuyOuterEnd(t)
    \/ MatchBuyRest(t)
    \/ MatchSellStart(t)
    \/ MatchSellOuter(t)
    \/ MatchSellTrade(t)
    \/ MatchSellCleanup(t)
    \/ MatchSellUnheap(t)
    \/ MatchSellOuterEnd(t)
    \/ MatchSellRest(t)
    \/ AddOrderReturn(t)

Step(t, inputs, limit) ==
    \/ ProcessOrder(t, inputs, limit)
    \/ AddOrder(t)
    \/ ProcessOrderReturn(t)

\* one caller that awaits each process_order before the next (the tests)
Next == Step(1, SeqInputs, MaxOrders)

Spec == Init /\ [][Next]_vars

\* the same caller submitting any order the constructor accepts
NextAll == Step(1, AllInputs, MaxOrders)

SpecAll == Init /\ [][NextAll]_vars

\* the caller of Spec with the worker thread that runs add_order scheduled
\* until add_order returns (run_in_executor, lines 34-39)
SpecLive == Init /\ [][Next]_vars /\ WF_vars(AddOrder(1))

\* callers whose process_order calls are in flight together
\* (benchmark_concurrent_orders)
ConcNext == \E t \in Callers : Step(t, ConcInputs, ConcMaxOrders)

SpecConc == Init /\ [][ConcNext]_vars

\* ------------------------------------ process_order on the REST threads
\* submit_order runs asyncio.run(process_order(order)) on the thread of its
\* request, so the statements after the await run on several threads.
\* Lines 41-44: the trades join the history and processed_orders is loaded;
\* the first append raises KeyError when trade_history has no list for the
\* symbol, and the error of add_order or of the append goes to the caller
ProcessOrderAppend(t) ==
    /\ calls[t].pc \in {"ret", "raised"}
    /\ IF calls[t].pc = "ret" /\ calls[t].trades = <<>>
       THEN /\ calls' = [calls EXCEPT ![t].pc = "count",
                                      ![t].loaded = processed_orders]
            /\ UNCHANGED <<trade_history, results>>
       ELSE
       IF calls[t].pc = "ret" /\ OrderOf(t).symbol \in DOMAIN trade_history
       THEN /\ trade_history' = [trade_history EXCEPT ![OrderOf(t).symbol] =
                                   @ \o calls[t].trades]
            /\ calls' = [calls EXCEPT ![t].pc = "count",
                                      ![t].loaded = processed_orders]
            /\ UNCHANGED results
       ELSE /\ calls' = [calls EXCEPT ![t] = IdleCall]
            /\ results' = DictSet(results, calls[t].order, None)
            /\ UNCHANGED trade_history
    /\ UNCHANGED <<order_books, order_cache, processed_orders, levels,
                   submitted, cancelled, reader, hook_calls,
                   rejected,
                   connections, subscriptions, trade_subscriptions, peers,
                   price_level>>

\* line 44-45: the incremented value is stored and the trades are returned
ProcessOrderCount(t) ==
    /\ calls[t].pc = "count"
    /\ processed_orders' = calls[t].loaded + 1
    /\ results' = DictSet(results, calls[t].order, Some(calls[t].trades))
    /\ calls' = [calls EXCEPT ![t] = IdleCall]
    /\ UNCHANGED <<order_books, trade_history, order_cache, levels, submitted,
                   cancelled, reader, hook_calls,
                   rejected,
                   connections, subscriptions, trade_subscriptions, peers,
                   price_level>>

\* request threads whose process_order calls run together
RestNext ==
    \E t \in Callers :
      \/ ProcessOrder(t, ConcInputs, ConcMaxOrders)
      \/ AddOrder(t)
      \/ ProcessOrderAppend(t)
      \/ ProcessOrderCount(t)

SpecRest == Init /\ [][RestNext]_vars

\* ---------------------------------- MatchingEngine.get_order_book_state
\* lines 47-52: None for an unknown symbol, else the book is bound and its
\* BBO cache read
GetStateBbo ==
    /\ reader.pc \in {"idle", "done"}
    /\ reader.taken < MaxSnapshots
    /\ \E symbol \in Symbols, depth \in {1, default_depth} :
         reader' = IF symbol \notin DOMAIN order_books
                   THEN [IdleReader EXCEPT !.pc = "done", !.symbol = symbol,
                                           !.depth = depth,
                                           !.taken = reader.taken + 1]
                   ELSE [IdleReader EXCEPT !.pc = "depth", !.symbol = symbol,
                                           !.depth = depth,
                                           !.bbo = get_bbo(order_books[symbol]),
                                           !.taken = reader.taken + 1]
    /\ UNCHANGED <<order_books, trade_history, order_cache, processed_orders,
                   levels, calls, submitted, cancelled, hook_calls, results,
                   rejected,
                   connections, subscriptions, trade_subscriptions, peers,
                   price_level>>

\* lines 53-62: get_depth, then the dict is built and returned
GetStateDepth ==
    /\ reader.pc = "depth"
    /\ LET book == order_books[reader.symbol]
       IN reader' = IF get_depth_raises(book)
                    THEN [reader EXCEPT !.pc = "done", !.raised = TRUE]
                    ELSE [reader EXCEPT
                            !.pc = "done",
                            !.result = Some(order_book_state(reader.symbol,
                                         reader.bbo,
                                         get_depth(book, levels, reader.depth)))]
    /\ UNCHANGED <<order_books, trade_history, order_cache, processed_orders,
                   levels, calls, submitted, cancelled, hook_calls, results,
                   rejected,
                   connections, subscriptions, trade_subscriptions, peers,
                   price_level>>

\* one caller submitting orders while another thread takes snapshots (GET
\* /orderbook, or a subscribe_orderbook message, during an add_order)
SnapNext ==
    \/ Step(1, ConcInputs, SnapMaxOrders)
    \/ GetStateBbo
    \/ GetStateDepth

SpecSnap == Init /\ [][SnapNext]_vars

\* ------------------------------- first orders for a symbol on REST threads
\* process_order, lines 24-31, statement by statement on the thread of each
\* request: the membership test, the two stores and the lookup are separate
\* steps that other request threads can run between.
FirstInputs ==
    {o \in OrderInputs(Symbols, 1..1, 1..1) : o.order_type \in {MARKET, LIMIT}}

\* an OrderBook object that order_books no longer holds and calls may still
\* hold: it is kept beside the registered books under a name of its own,
\* made of its symbol and the id of the order whose call replaced it
Replaced(symbol, id) == symbol \o "#" \o ToString(id)

\* line 26: `symbol not in self.order_books` is evaluated
ProcessOrderTest(t, inputs, limit) ==
    /\ calls[t].pc = "idle"
    /\ Len(submitted) < limit
    /\ \E o \in inputs :
         LET id == Len(submitted) + 1
             order == [order_id |-> id, symbol |-> o.symbol,
                       order_type |-> o.order_type, side |-> o.side,
                       quantity |-> o.quantity, price |-> o.price]
         IN /\ submitted' = Append(submitted, order)
            /\ calls' = [calls EXCEPT ![t] =
                  [IdleCall EXCEPT
                     !.pc = IF order.symbol \in DOMAIN order_books
                            THEN "lookup" ELSE "new_book",
                     !.order = id]]
    /\ UNCHANGED <<order_books, trade_history, order_cache, processed_orders,
                   levels, cancelled, reader, hook_calls, results,
                   rejected,
                   connections, subscriptions, trade_subscriptions, peers,
                   price_level>>

\* line 27: a new OrderBook is stored under the symbol; the object that
\* was stored there stays with the calls that took it
ProcessOrderNewBook(t) ==
    /\ calls[t].pc = "new_book"
    /\ LET symbol == submitted[calls[t].order].symbol
           old == Replaced(symbol, calls[t].order)
       IN IF symbol \in DOMAIN order_books
          THEN /\ order_books' =
                    DictSet(DictSet(order_books, old, order_books[symbol]),
                            symbol, NewOrderBook)
               /\ calls' = [u \in Callers |->
                    IF u = t THEN [calls[t] EXCEPT !.pc = "new_history"]
                    ELSE IF calls[u].book = symbol
                         THEN [calls[u] EXCEPT !.book = old]
                         ELSE calls[u]]
          ELSE /\ order_books' = DictSet(order_books, symbol, NewOrderBook)
               /\ calls' = [calls EXCEPT ![t].pc = "new_history"]
    /\ UNCHANGED <<trade_history, order_cache, processed_orders, levels,
                   submitted, cancelled, reader, hook_calls, results,
                   rejected,
                   connections, subscriptions, trade_subscriptions, peers,
                   price_level>>

\* line 28: an empty list is stored as the history of the symbol
ProcessOrderNewHistory(t) ==
    /\ calls[t].pc = "new_history"
    /\ trade_history' = DictSet(trade_history,
                                submitted[calls[t].order].symbol, <<>>)
    /\ calls' = [calls EXCEPT ![t].pc = "lookup"]
    /\ UNCHANGED <<order_books, order_cache, processed_orders, levels,
                   submitted, cancelled, reader, hook_calls, results,
                   rejected,
                   connections, subscriptions, trade_subscriptions, peers,
                   price_level>>

\* lines 30-35: the call takes the book now stored under the symbol, caches
\* the order and hands add_order to the thread pool
ProcessOrderLookup(t) ==
    /\ calls[t].pc = "lookup"
    /\ order_cache' = DictSet(order_cache, calls[t].order,
                              submitted[calls[t].order])
    /\ calls' = [calls EXCEPT ![t].pc = "start",
                              ![t].book = submitted[calls[t].order].symbol]
    /\ UNCHANGED <<order_books, trade_history, processed_orders, levels,
                   submitted, cancelled, reader, hook_calls, results,
                   rejected,
                   connections, subscriptions, trade_subscriptions, peers,
                   price_level>>

\* request threads whose process_order calls run together from line 24 on
FirstNext ==
    \E t \in Callers :
      \/ ProcessOrderTest(t, FirstInputs, FirstMaxOrders)
      \/ ProcessOrderNewBook(t)
      \/ ProcessOrderNewHistory(t)
      \/ ProcessOrderLookup(t)
      \/ AddOrder(t)
      \/ ProcessOrderAppend(t)
      \/ ProcessOrderCount(t)

SpecFirst == Init /\ [][FirstNext]_vars

\* ------------------------------------- snapshots between process_order calls
\* LIMIT orders at every price, so that a side can hold several levels
DepthInputs ==
    {o \in OrderInputs(Symbols, Prices, 1..MaxQty) : o.order_type = LIMIT}

\* the depth arguments: none, fewer than the levels of a side, the default
DepthArgs == {0, 1, 2, default_depth}

\* a lookup that takes a book without resting orders for an unknown symbol
symbol_in_order_books_nonempty(books, symbol) ==
    /\ symbol \in DOMAIN books
    /\ (books[symbol].bid_prices # <<>> \/ books[symbol].ask_prices # <<>>)

\* get_order_book_state, line 48: `symbol in self.order_books`
symbol_in_order_books(books, symbol) == symbol \in DOMAIN books

\* MatchingEngine.get_order_book_state called on the event loop while no
\* add_order is running on a worker thread (between two process_order
\* calls as in quick_benchmark, or while a call waits for its worker or to
\* be resumed): the whole call sees one state of the book
GetOrderBookState(symbols, depths) ==
    /\ calls[1].pc \notin InAddOrder
    /\ reader.taken < MaxSnapshots
    /\ \E symbol \in symbols, depth \in depths :
         reader' =
           IF ~symbol_in_order_books(order_books, symbol)
           THEN [IdleReader EXCEPT !.pc = "done", !.symbol = symbol,
                                   !.depth = depth, !.taken = reader.taken + 1]
           ELSE LET book == order_books[symbol]
                    bbo == get_bbo(book)
                IN IF get_depth_raises(book)
                   THEN [IdleReader EXCEPT !.pc = "done", !.symbol = symbol,
                                           !.depth = depth, !.bbo = bbo,
                                           !.raised = TRUE,
                                           !.taken = reader.taken + 1]
                   ELSE [IdleReader EXCEPT
                           !.pc = "done", !.symbol = symbol, !.depth = depth,
                           !.bbo = bbo,
                           !.result = Some(order_book_state(symbol, bbo,
                                             get_depth(book, levels, depth))),
                           !.taken = reader.taken + 1]
    /\ UNCHANGED <<order_books, trade_history, order_cache, processed_orders,
                   levels, calls, submitted, cancelled, hook_calls, results,
                   rejected,
                   connections, subscriptions, trade_subscriptions, peers,
                   price_level>>

DepthNext ==
    \/ Step(1, DepthInputs, DepthMaxOrders)
    \/ GetOrderBookState(Symbols, DepthArgs)

SpecDepth == Init /\ [][DepthNext]_vars

\* -------------------------------------------- snapshots over two symbols
LookupSymbols == Symbols \cup {"ETH-USDT"}

\* orders of every type for either symbol, at one price and quantity
LookupInputs == OrderInputs(LookupSymbols, 1..1, 1..1)

LookupNext ==
    \/ Step(1, LookupInputs, LookupMaxOrders)
    \/ GetOrderBookState(LookupSymbols, {default_depth})

SpecLookup == Init /\ [][LookupNext]_vars

\* --------------------------------------- a side that holds three levels
\* LIMIT orders of quantity 1 at every price, which open the levels, and
\* MARKET orders, which empty them
HeapInputs ==
    {o \in OrderInputs(Symbols, Prices, 1..MaxQty) :
       \/ o.order_type = LIMIT /\ o.quantity = 1
       \/ o.order_type = MARKET}

HeapNext == Step(1, HeapInputs, HeapMaxOrders)

SpecHeap == Init /\ [][HeapNext]_vars

\* ------------------------------------------- one caller, two symbols
\* orders of every type for either symbol, at one price
PairInputs == OrderInputs(LookupSymbols, 1..1, 1..MaxQty)

PairNext == Step(1, PairInputs, PairMaxOrders)

SpecPair == Init /\ [][PairNext]_vars

\* ------------------------------------------------- Order construction
\* the arguments a caller may give Order(...): any type and side, a
\* negative, zero or positive quantity, with or without a price
OrderCandidates ==
    [symbol : Symbols, order_type : {MARKET, LIMIT, IOC, FOK},
     side : {BUY, SELL}, quantity : (-1)..1, price : {None, Some(1)}]

\* Order(...) raises ValueError in __post_init__: the caller has no Order
\* object and process_order is not called
OrderRejected(candidates) ==
    /\ calls[1].pc = "idle"
    /\ Len(rejected) < MaxRejected
    /\ \E o \in candidates :
         /\ ~Order_post_init(o)
         /\ rejected' = Append(rejected, o)
    /\ UNCHANGED <<order_books, trade_history, order_cache, processed_orders,
                   levels, calls, submitted, cancelled, reader, hook_calls,
                   results,
                   connections, subscriptions, trade_subscriptions, peers,
                   price_level>>

\* a caller that constructs each order and submits the ones it obtained
CtorNext ==
    \/ Step(1, {o \in OrderCandidates : Order_post_init(o)}, CtorMaxOrders)
    \/ OrderRejected(OrderCandidates)

SpecCtor == Init /\ [][CtorNext]_vars

\* ------------------------------------------------ two books fed in pairs
\* Each order goes to the book of PlainSymbol and then, again, to the book
\* of PricedSymbol; there a MARKET order carries a price.
PlainSymbol == "BTC-USDT"
PricedSymbol == "ETH-USDT"

\* the first order of a pair: a LIMIT order or a MARKET order without price
PlainInputs ==
    {o \in OrderInputs({PlainSymbol}, Prices, 1..MaxQty) :
       o.order_type \in {MARKET, LIMIT}}

\* the second order of a pair, as far as the constructor accepts it
PricedTwins(o) ==
    {tw \in {[o EXCEPT !.symbol = PricedSymbol, !.price = pr] :
               pr \in IF o.order_type = MARKET
                      THEN {Some(q) : q \in Prices} ELSE {o.price}} :
       Order_post_init(tw)}

TwinInputs ==
    IF Len(submitted) % 2 = 0 THEN PlainInputs
    ELSE PricedTwins(submitted[Len(submitted)])

TwinNext == Step(1, TwinInputs, TwinMaxOrders)

SpecTwin == Init /\ [][TwinNext]_vars

\* ------------------------------------ the same orders through POST /order
\* RESTAPI.submit_order, lines 30-58: the Order built from the JSON body.
\* The price of the body is read for a LIMIT order only; every other type
\* gets price = None.
submit_order(data) ==
    [symbol |-> data.symbol, order_type |-> data.order_type,
     side |-> data.side, quantity |-> data.quantity,
     price |-> IF data.order_type = LIMIT THEN data.price ELSE None]

\* the book fed through the REST route
RoutedSymbol == "ETH-USDT"

\* orders given to process_order directly, at prices above 0
DirectInputs == OrderInputs({PlainSymbol}, 1..MaxPrice, 1..MaxQty)

\* Each order goes to the book of PlainSymbol directly and then, as the
\* body of a POST /order with the same fields, to the book of RoutedSymbol.
RouteInputs ==
    IF Len(submitted) % 2 = 0 THEN DirectInputs
    ELSE {o \in {submit_order([submitted[Len(submitted)] EXCEPT
                                 !.symbol = RoutedSymbol])} : Order_post_init(o)}

RouteNext == Step(1, RouteInputs, RouteMaxOrders)

SpecRoute == Init /\ [][RouteNext]_vars

\* ------------------------------------------- a PriceLevel used on its own
\* everything but the stand-alone PriceLevel
BesidesLevel == <<order_books, trade_history, order_cache, processed_orders,
                  levels, calls, submitted, cancelled, reader, hook_calls,
                  results, rejected, connections, subscriptions,
                  trade_subscriptions, peers>>

\* PriceLevel.add_order(order) for a new Order object of the given quantity
LevelAddOrder(quantities) ==
    /\ Len(price_level.orders) < LevelMaxOrders
    /\ \E quantity \in quantities :
         LET id == Len(price_level.orders) + 1
             order == [order_id |-> id, quantity |-> quantity]
         IN price_level' =
              [price_level EXCEPT
                 !.orders = Append(@, order),
                 !.level = PriceLevel_add_order(@, order)]
    /\ UNCHANGED BesidesLevel

\* the holder of the level fills its head order in part or in full, as the
\* matching loop does (order_book.py lines 86-87)
LevelFillHead ==
    /\ price_level.level.orders # <<>>
    /\ \E trade_quantity \in
           1..price_level.orders[Head(price_level.level.orders)].quantity :
         price_level' =
           [price_level EXCEPT
              !.orders[Head(price_level.level.orders)].quantity =
                 @ - trade_quantity,
              !.level.total_quantity = @ - trade_quantity]
    /\ UNCHANGED BesidesLevel

\* PriceLevel.remove_front_order() called on the level, empty or not
LevelRemoveFrontOrder ==
    /\ Len(price_level.returned) < LevelMaxCalls
    /\ price_level' =
         [price_level EXCEPT
            !.level = remove_front_order(@, price_level.orders),
            !.returned = Append(@, remove_front_order_returns(price_level.level))]
    /\ UNCHANGED BesidesLevel

\* LIMIT orders at one price, which fill each other
LevelInputs ==
    {o \in OrderInputs(Symbols, 1..1, 1..MaxQty) : o.order_type = LIMIT}

\* a PriceLevel driven directly, beside a book whose matching loop drives
\* its own levels
LevelNext ==
    \/ Step(1, LevelInputs, LevelMaxOrders)
    \/ LevelAddOrder(1..MaxQty)
    \/ LevelFillHead
    \/ LevelRemoveFrontOrder

SpecLevel == Init /\ [][LevelNext]_vars

\* ------------------------------------------------- MarketDataWebSocket
\* A connection is new (not yet accepted), open, closing (the peer has
\* gone, handle_connection has not yet left its loop) or closed
\* (handle_connection has ended).
\* The "symbols" member of a message: absent, a string or a list.
SymbolsMembers ==
    {[kind |-> "absent", string |-> "", list |-> <<>>],
     [kind |-> "str", string |-> "BTC-USDT", list |-> <<>>],
     [kind |-> "list", string |-> "", list |-> <<"BTC-USDT", "ETH-USDT">>]}

\* the messages a client sends: text that is not JSON, JSON that is not an
\* object, and objects with an action and a "symbols" member
WsMessages ==
    [json : {"invalid", "array"}, action : {""},
     symbols : {[kind |-> "absent", string |-> "", list |-> <<>>]}]
    \cup
    [json : {"object"},
     action : {"subscribe_orderbook", "subscribe_trades",
               "unsubscribe_orderbook", "unsubscribe_trades",
               "list_subscriptions", "ping"},
     symbols : SymbolsMembers]

\* lines 64-66: data.get("symbols", []), a string wrapped in a list
message_symbols(data) ==
    IF data.symbols.kind = "absent" THEN <<>>
    ELSE IF data.symbols.kind = "str" THEN <<data.symbols.string>>
    ELSE data.symbols.list

\* set.update(list) and set.difference_update(list)
set_update(set, list) == set \cup {list[i] : i \in 1..Len(list)}
set_difference_update(set, list) == set \ {list[i] : i \in 1..Len(list)}

\* a handler whose unsubscribe_trades branch works on the order-book map
handle_message_crossed(subs, trade_subs, websocket, data) ==
    LET symbols == message_symbols(data) IN
    IF data.action = "subscribe_orderbook"
    THEN <<[subs EXCEPT ![websocket] = set_update(@, symbols)], trade_subs>>
    ELSE IF data.action = "subscribe_trades"
    THEN <<subs, [trade_subs EXCEPT ![websocket] = set_update(@, symbols)]>>
    ELSE IF data.action = "unsubscribe_orderbook"
    THEN <<[subs EXCEPT ![websocket] = set_difference_update(@, symbols)],
           trade_subs>>
    ELSE IF data.action = "unsubscribe_trades"
    THEN <<[subs EXCEPT ![websocket] = set_difference_update(@, symbols)],
           trade_subs>>
    ELSE <<subs, trade_subs>>

\* handle_message, lines 61-137, for a JSON object: the two maps after it
handle_message(subs, trade_subs, websocket, data) ==
    LET symbols == message_symbols(data) IN
    IF data.action = "subscribe_orderbook"
    THEN <<[subs EXCEPT ![websocket] = set_update(@, symbols)], trade_subs>>
    ELSE IF data.action = "subscribe_trades"
    THEN <<subs, [trade_subs EXCEPT ![websocket] = set_update(@, symbols)]>>
    ELSE IF data.action = "unsubscribe_orderbook"
    THEN <<[subs EXCEPT ![websocket] = set_difference_update(@, symbols)],
           trade_subs>>
    ELSE IF data.action = "unsubscribe_trades"
    THEN <<subs, [trade_subs EXCEPT ![websocket] =
                    set_difference_update(@, symbols)]>>
    ELSE <<subs, trade_subs>>

EngineVars == <<order_books, trade_history, order_cache, processed_orders,
                levels, calls, submitted, cancelled, reader, hook_calls,
                results, rejected, price_level>>

\* handle_connection, lines 30-32: the connection is registered with two
\* empty subscription sets
HandleConnection(websocket) ==
    /\ peers.state[websocket] = "new"
    /\ connections' = connections \cup {websocket}
    /\ subscriptions' = DictSet(subscriptions, websocket, {})
    /\ trade_subscriptions' = DictSet(trade_subscriptions, websocket, {})
    /\ peers' = [peers EXCEPT !.state[websocket] = "open"]
    /\ UNCHANGED EngineVars

\* the peer goes away; the server learns of it at its next receive or send
ConnectionClosed(websocket) ==
    /\ peers.state[websocket] = "open"
    /\ peers' = [peers EXCEPT !.state[websocket] = "closing"]
    /\ UNCHANGED <<connections, subscriptions, trade_subscriptions>>
    /\ UNCHANGED EngineVars

\* handle_connection, lines 45-55: the loop has ended, the connection
\* leaves the set and both maps
HandleConnectionFinally(websocket) ==
    /\ peers.state[websocket] = "closing"
    /\ connections' = connections \ {websocket}
    /\ subscriptions' = DictDel(subscriptions, websocket)
    /\ trade_subscriptions' = DictDel(trade_subscriptions, websocket)
    /\ peers' = [peers EXCEPT !.state[websocket] = "closed"]
    /\ UNCHANGED EngineVars

\* handle_message for one message of an open connection. Text that is not
\* JSON is answered with an error; JSON that is not an object raises
\* AttributeError at data.get, which ends handle_connection (lines 47-55);
\* an object is handled by its action. The replies go to the sender.
HandleMessage(websocket, messages) ==
    /\ peers.state[websocket] = "open"
    /\ peers.handled < WsMaxMessages
    /\ \E data \in messages :
         IF data.json = "invalid"
         THEN /\ peers' = [peers EXCEPT !.handled = @ + 1]
              /\ UNCHANGED <<connections, subscriptions, trade_subscriptions>>
         ELSE IF data.json = "array"
         THEN /\ connections' = connections \ {websocket}
              /\ subscriptions' = DictDel(subscriptions, websocket)
              /\ trade_subscriptions' = DictDel(trade_subscriptions, websocket)
              /\ peers' = [peers EXCEPT !.handled = @ + 1,
                                        !.state[websocket] = "closed"]
         ELSE LET maps == handle_message(subscriptions, trade_subscriptions,
                                         websocket, data)
              IN /\ subscriptions' = maps[1]
                 /\ trade_subscriptions' = maps[2]
                 /\ peers' = [peers EXCEPT
                      !.handled = @ + 1,
                      !.requests[websocket] =
                         IF data.action \in {"list_subscriptions", "ping"}
                         THEN @
                         ELSE Append(@, [action |-> data.action,
                                         symbols |-> data.symbols])]
                 /\ UNCHANGED connections
    /\ UNCHANGED EngineVars

\* the sends of a broadcast: gather(..., return_exceptions=True) drops the
\* error of a send to a connection whose peer has gone
Delivered(targets) == {c \in targets : peers.state[c] = "open"}

\* broadcast_trade(trade) for a trade of the given symbol
BroadcastTrade(symbols) ==
    /\ Len(peers.sent) < WsMaxBroadcasts
    /\ \E symbol \in symbols :
         LET targets == IF connections = {} THEN {}
                        ELSE {c \in DOMAIN trade_subscriptions :
                                symbol \in trade_subscriptions[c]}
         IN peers' = [peers EXCEPT !.sent =
                        Append(@, [type |-> "trade_execution",
                                   symbol |-> symbol,
                                   to |-> Delivered(targets)])]
    /\ UNCHANGED <<connections, subscriptions, trade_subscriptions>>
    /\ UNCHANGED EngineVars

\* broadcast_order_book_update(symbol): nothing is sent without a
\* connection, without a book for the symbol, or when the snapshot raises
BroadcastOrderBookUpdate(symbols) ==
    /\ Len(peers.sent) < WsMaxBroadcasts
    /\ \E symbol \in symbols :
         LET no_data == \/ ~symbol_in_order_books(order_books, symbol)
                        \/ get_depth_raises(order_books[symbol])
             targets == IF connections = {} \/ no_data THEN {}
                        ELSE {c \in DOMAIN subscriptions :
                                symbol \in subscriptions[c]}
         IN peers' = [peers EXCEPT !.sent =
                        Append(@, [type |-> "order_book_update",
                                   symbol |-> symbol,
                                   to |-> Delivered(targets)])]
    /\ UNCHANGED <<connections, subscriptions, trade_subscriptions>>
    /\ UNCHANGED EngineVars

\* orders that give one of the two symbols a book
WsInputs ==
    {o \in OrderInputs(Symbols, 1..1, 1..1) : o.order_type = LIMIT}

WsNext ==
    \/ Step(1, WsInputs, WsMaxOrders)
    \/ \E websocket \in Conns :
         \/ HandleConnection(websocket)
         \/ ConnectionClosed(websocket)
         \/ HandleConnectionFinally(websocket)
         \/ HandleMessage(websocket, WsMessages)
    \/ BroadcastTrade(LookupSymbols)
    \/ BroadcastOrderBookUpdate(LookupSymbols)

SpecWs == Init /\ [][WsNext]_vars

\* ================================================================ claims
\* add_order has returned in every call (or no call is in flight)
Returned == \A t \in Callers : calls[t].pc \in {"idle", "ret"}

\* the trades of symbol s in the order they were produced: the history and
\* the trades of the calls not yet appended to it
RECURSIVE PendingTrades(_, _)
PendingTrades(s, t) ==
    IF t = 0 THEN <<>>
    ELSE PendingTrades(s, t - 1) \o
         (IF calls[t].order # 0 /\ OrderOf(t).symbol = s THEN calls[t].trades
          ELSE <<>>)

TradesOf(s) == trade_history[s] \o PendingTrades(s, MaxInFlight)

\* the quantity of the first n trades in which order id has the given role
RECURSIVE QtyWhere(_, _, _, _)
QtyWhere(trades, n, role, id) ==
    IF n = 0 THEN 0
    ELSE QtyWhere(trades, n - 1, role, id) +
         (IF trades[n][role] = id THEN trades[n].quantity ELSE 0)

RECURSIVE SumQty(_)
SumQty(trades) ==
    IF trades = <<>> THEN 0 ELSE Head(trades).quantity + SumQty(Tail(trades))

MinOf(S) == CHOOSE x \in S : \A y \in S : x <= y
MaxOf(S) == CHOOSE x \in S : \A y \in S : x >= y

\* the level objects the two maps of a book hold
BookLevels(b) == {b.bids[p] : p \in DOMAIN b.bids} \cup {b.asks[p] : p \in DOMAIN b.asks}

\* the orders resting in the book of symbol s
RestingIn(s) ==
    UNION {{levels[l].orders[i] : i \in 1..Len(levels[l].orders)} :
              l \in BookLevels(order_books[s])}

\* the side of the book an order matches against
Opposite(b, order) == IF order.side = BUY THEN b.asks ELSE b.bids

\* the best price of a non-empty opposite side
BestOpposite(b, order) ==
    IF order.side = BUY THEN MinOf(DOMAIN b.asks) ELSE MaxOf(DOMAIN b.bids)

\* the eligibility rule: a maker at price p against taker `order`
Eligible(order, p) ==
    \/ order.order_type = MARKET
    \/ order.side = BUY /\ order.price[1] >= p
    \/ order.side = SELL /\ order.price[1] <= p

\* ---------------------------------------------------------------- C1
\* C1: after every add_order returns, best_bid < best_ask when both are
\* present, and no price is a key of both the bid and the ask side.
C1_NeverCrossed ==
    Returned =>
      \A s \in DOMAIN order_books :
        LET b == order_books[s] IN
        /\ (b.best_bid # None /\ b.best_ask # None) => b.best_bid[1] < b.best_ask[1]
        /\ (DOMAIN b.bids) \cap (DOMAIN b.asks) = {}

\* ---------------------------------------------------------------- C2
\* C2: a FOK order is all-or-nothing: add_order returns trades whose
\* quantities sum to the order's quantity, or no trade and an unchanged book.
C2_FokAllOrNothing ==
    \A t \in Callers :
      (calls[t].pc = "ret" /\ OrderOf(t).order_type = FOK) =>
        \/ SumQty(calls[t].trades) = submitted[calls[t].order].quantity
        \/ /\ calls[t].trades = <<>>
           /\ BookOf(t) = calls[t].entry.book
           /\ levels = calls[t].entry.levels
           /\ order_cache = calls[t].entry.cache

\* ---------------------------------------------------------------- C3
\* C3: matching one order is atomic per book: two add_order executions on
\* the book of one symbol never overlap.
C3_AddOrderSerialized ==
    \A t, u \in Callers :
      (t # u /\ calls[t].pc \in InAddOrder /\ calls[u].pc \in InAddOrder) =>
        OrderOf(t).symbol # OrderOf(u).symbol

\* ---------------------------------------------------------------- C4
\* C4: price-time priority within a level: every trade with maker B is
\* preceded by trades that fill completely each order A that rests at B's
\* price on B's side and was accepted before B; in a queue the orders stand
\* in acceptance order and only the head has been traded against.
C4_PriceTimePriority ==
    \A s \in DOMAIN order_books :
      LET tr == TradesOf(s) IN
      /\ \A k \in 1..Len(tr) :
           LET B == submitted[tr[k].maker_order_id] IN
           \A a \in 1..(B.order_id - 1) :
             LET A == submitted[a] IN
             (A.symbol = s /\ A.side = B.side /\ A.price = B.price
                /\ A.order_type = LIMIT) =>
               QtyWhere(tr, k - 1, "maker_order_id", a) =
                 A.quantity - QtyWhere(tr, Len(tr), "taker_order_id", a)
      /\ \A l \in BookLevels(order_books[s]) :
           \A i, j \in 1..Len(levels[l].orders) :
             i < j =>
               /\ levels[l].orders[i] < levels[l].orders[j]
               /\ QtyWhere(tr, Len(tr), "maker_order_id", levels[l].orders[j]) = 0

\* the taker traded against A, the earlier of two orders at one price, and
\* B, the later one, still rests untouched
C4_Witness ==
    \E s \in DOMAIN order_books :
      \E k \in 1..Len(TradesOf(s)) :
        \E b \in RestingIn(s) :
          LET A == submitted[TradesOf(s)[k].maker_order_id]
              B == submitted[b]
          IN /\ Returned
             /\ A.order_id < B.order_id
             /\ A.side = B.side /\ A.price = B.price
             /\ order_cache[b].quantity = B.quantity

\* ---------------------------------------------------------------- C5
\* C5: the trades of one add_order call run from the best opposite price on:
\* prices never decrease for a BUY taker and never increase for a SELL
\* taker, and when a maker at price p has just been traded no level with a
\* strictly better price is left on the opposite side.
C5_BestPriceFirst ==
    \A t \in Callers :
      calls[t].order # 0 =>
        LET tr == calls[t].trades
            order == OrderOf(t)
        IN /\ \A i, j \in 1..Len(tr) :
                i < j => IF order.side = BUY THEN tr[i].price <= tr[j].price
                         ELSE tr[i].price >= tr[j].price
           /\ calls[t].pc = "cleanup" =>
                \A q \in DOMAIN Opposite(BookOf(t), order) :
                  IF order.side = BUY THEN q >= tr[Len(tr)].price
                  ELSE q <= tr[Len(tr)].price

\* one call swept two levels at different prices
C5_Witness ==
    \E t \in Callers :
      /\ calls[t].pc = "ret"
      /\ Len(calls[t].trades) >= 2
      /\ calls[t].trades[1].price # calls[t].trades[2].price

\* ---------------------------------------------------------------- C6
\* C6: after any sequence of submits every price level on both sides has
\* total_quantity equal to the sum of the remaining quantities of the
\* orders in its queue.
RECURSIVE QueueQty(_)
QueueQty(q) ==
    IF q = <<>> THEN 0 ELSE order_cache[Head(q)].quantity + QueueQty(Tail(q))

C6_LevelTotals ==
    Returned =>
      \A s \in DOMAIN order_books :
        \A l \in BookLevels(order_books[s]) :
          levels[l].total_quantity = QueueQty(levels[l].orders)

\* a level holds a partially filled head and a second order behind it
C6_Witness ==
    /\ Returned
    /\ \E s \in DOMAIN order_books :
         \E l \in BookLevels(order_books[s]) :
           /\ Len(levels[l].orders) >= 2
           /\ order_cache[Head(levels[l].orders)].quantity <
                submitted[Head(levels[l].orders)].quantity

\* ---------------------------------------------------------------- C7
\* C7: quantity conservation: for every order, submitted quantity = traded
\* as taker + traded as maker + remaining resting quantity + cancelled
\* residual; summed over all orders, submitted = twice the traded quantity
\* + resting + cancelled.
TakerQty(id) ==
    QtyWhere(TradesOf(submitted[id].symbol), Len(TradesOf(submitted[id].symbol)),
             "taker_order_id", id)

MakerQty(id) ==
    QtyWhere(TradesOf(submitted[id].symbol), Len(TradesOf(submitted[id].symbol)),
             "maker_order_id", id)

RestingQty(id) ==
    IF id \in RestingIn(submitted[id].symbol) THEN order_cache[id].quantity ELSE 0

CancelledQty(id) == IF id \in DOMAIN cancelled THEN cancelled[id] ELSE 0

RECURSIVE SumIds(_, _)
SumIds(f, n) == IF n = 0 THEN 0 ELSE f[n] + SumIds(f, n - 1)

C7_Conservation ==
    Returned =>
      LET n == Len(submitted) IN
      /\ \A id \in 1..n :
           submitted[id].quantity =
             TakerQty(id) + MakerQty(id) + RestingQty(id) + CancelledQty(id)
      /\ SumIds([id \in 1..n |-> submitted[id].quantity], n) =
           2 * SumIds([id \in 1..n |-> TakerQty(id)], n)
           + SumIds([id \in 1..n |-> RestingQty(id)], n)
           + SumIds([id \in 1..n |-> CancelledQty(id)], n)

\* one order has traded as taker, rested, and then traded as maker, while
\* another order's residual was cancelled
C7_Witness ==
    /\ Returned
    /\ \E id \in 1..Len(submitted) : TakerQty(id) > 0 /\ MakerQty(id) > 0
    /\ \E id \in 1..Len(submitted) : CancelledQty(id) > 0

\* ---------------------------------------------------------------- C8
\* C8: every trade produced has quantity > 0 equal to min(taker remaining,
\* maker remaining) at the moment of the match, the maker's resting price,
\* the taker's side as aggressor_side, the id of the head of the best
\* opposite level as maker_order_id and the incoming order's id as
\* taker_order_id.
C8_TradeFields ==
    [][\A t \in Callers :
         Len(calls'[t].trades) = Len(calls[t].trades) + 1 =>
           LET tr == calls'[t].trades[Len(calls'[t].trades)]
               order == OrderOf(t)
               book == BookOf(t)
               best == BestOpposite(book, order)
               m == Head(levels[Opposite(book, order)[best]].orders)
           IN /\ tr.quantity > 0
              /\ tr.quantity = Min(calls[t].remaining_quantity,
                                   order_cache[m].quantity)
              /\ tr.price = submitted[m].price[1]
              /\ tr.price = best
              /\ tr.aggressor_side = order.side
              /\ tr.maker_order_id = m
              /\ tr.taker_order_id = order.order_id
              /\ tr.symbol = order.symbol]_vars

\* a trade has just been produced that fills its maker only in part
C8_Witness ==
    \E t \in Callers :
      /\ calls[t].pc = "cleanup"
      /\ order_cache[calls[t].resting_order].quantity > 0
      /\ calls[t].trades[Len(calls[t].trades)].maker_order_id = calls[t].resting_order

\* ---------------------------------------------------------------- C9
\* C9: eligibility follows the stated rule for every price, price 0
\* included: the loop goes on trading against the best opposite level
\* exactly when that level is eligible (so when it stops with quantity
\* left and a non-empty opposite side, the best level is not eligible),
\* and no trade is at a price the rule excludes.
C9_Eligibility ==
    \A t \in Callers :
      calls[t].order # 0 =>
        LET order == OrderOf(t)
            book == BookOf(t)
        IN /\ (calls[t].pc = "rest" /\ calls[t].remaining_quantity > 0
                 /\ DOMAIN Opposite(book, order) # {}) =>
                ~Eligible(order, BestOpposite(book, order))
           /\ \A i \in 1..Len(calls[t].trades) :
                Eligible(order, calls[t].trades[i].price)

\* ---------------------------------------------------------------- C10
\* C10: maximal fill: when add_order returns for a LIMIT, MARKET or IOC
\* taker the traded quantity is min(R, total quantity of the eligible
\* opposite levels), so either all of R was traded or no eligible maker is
\* left; a MARKET taker filled in part leaves the opposite side empty.
EligibleDepth(entry, order) ==
    LET opp == Opposite(entry.book, order)
        ps == {p \in DOMAIN opp : Eligible(order, p)}
        f == [p \in 0..MaxPrice |->
                IF p \in ps THEN entry.levels[opp[p]].total_quantity ELSE 0]
    IN SumIds([i \in 1..(MaxPrice + 1) |-> f[i - 1]], MaxPrice + 1)

C10_MaximalFill ==
    \A t \in Callers :
      (calls[t].pc = "ret" /\ OrderOf(t).order_type \in {LIMIT, MARKET, IOC}) =>
        LET order == submitted[calls[t].order]
            book == BookOf(t)
            traded == SumQty(calls[t].trades)
        IN /\ traded = Min(order.quantity, EligibleDepth(calls[t].entry, order))
           /\ \/ traded = order.quantity
              \/ \A p \in DOMAIN Opposite(book, order) : ~Eligible(order, p)
           /\ (order.order_type = MARKET /\ traded < order.quantity) =>
                DOMAIN Opposite(book, order) = {}

\* ---------------------------------------------------------------- C11
\* C11: only LIMIT orders rest: in every reachable book state no MARKET,
\* IOC or FOK order is in any queue, and when add_order has returned for
\* such an order its unfilled residual is not in the book.
C11_OnlyLimitRests ==
    /\ \A s \in DOMAIN order_books :
         \A id \in RestingIn(s) :
           order_cache[id].order_type = LIMIT /\ submitted[id].order_type = LIMIT
    /\ \A t \in Callers :
         (calls[t].pc = "ret" /\ OrderOf(t).order_type # LIMIT) =>
           calls[t].order \notin RestingIn(OrderOf(t).symbol)

\* an IOC order was filled in part, its residual was dropped and the book
\* is empty
C11_Witness ==
    \E t \in Callers :
      /\ calls[t].pc = "ret"
      /\ OrderOf(t).order_type = IOC
      /\ Len(calls[t].trades) = 1
      /\ SumQty(calls[t].trades) < submitted[calls[t].order].quantity
      /\ DOMAIN BookOf(t).bids = {} /\ DOMAIN BookOf(t).asks = {}
      /\ calls[t].order \in DOMAIN cancelled

\* ---------------------------------------------------------------- C12
\* C12: when add_order returns for a LIMIT taker with R of its quantity
\* untraded, R > 0 means the order rests with remaining quantity exactly R
\* at the tail of the level for its own price on its own side (the level is
\* created if absent, the queue in front of it is as it was), with order_id,
\* price and side as submitted; R = 0 means it does not rest. A LIMIT order
\* with no eligible maker returns no trade and rests with its whole quantity.
OwnSide(b, order) == IF order.side = BUY THEN b.bids ELSE b.asks

C12_LimitResidualRests ==
    \A t \in Callers :
      (calls[t].pc = "ret" /\ OrderOf(t).order_type = LIMIT) =>
        LET id == calls[t].order
            o == submitted[id]
            e == calls[t].entry
            p == o.price[1]
            R == o.quantity - SumQty(calls[t].trades)
            own == OwnSide(BookOf(t), o)
            before == IF p \in DOMAIN OwnSide(e.book, o)
                      THEN e.levels[OwnSide(e.book, o)[p]].orders ELSE <<>>
        IN /\ R > 0 =>
                /\ p \in DOMAIN own
                /\ levels[own[p]].price = p
                /\ levels[own[p]].orders = Append(before, id)
                /\ p \in DOMAIN OwnSide(e.book, o) => own[p] = OwnSide(e.book, o)[p]
                /\ order_cache[id] = [o EXCEPT !.quantity = R]
           /\ R = 0 => id \notin RestingIn(o.symbol)
           /\ (\A q \in DOMAIN Opposite(e.book, o) : ~Eligible(o, q)) =>
                calls[t].trades = <<>> /\ R = o.quantity

\* a LIMIT taker was filled in part and its residual rests
C12_Witness ==
    \E t \in Callers :
      /\ calls[t].pc = "ret"
      /\ OrderOf(t).order_type = LIMIT
      /\ calls[t].trades # <<>>
      /\ OrderOf(t).quantity > 0
      /\ OrderOf(t).quantity < submitted[calls[t].order].quantity
      /\ calls[t].order \in RestingIn(OrderOf(t).symbol)

\* ---------------------------------------------------------------- C13
\* C13: a submit that neither crosses nor can rest is a no-op: when
\* add_order returns for a MARKET order that found the opposite side empty,
\* or for an IOC order that found no eligible maker, it returns no trade and
\* the level maps, heaps, queues, totals, best_bid and best_ask are exactly
\* as add_order found them.
C13_NoOpSubmit ==
    \A t \in Callers :
      calls[t].pc = "ret" =>
        LET o == submitted[calls[t].order]
            e == calls[t].entry
        IN (\/ o.order_type = MARKET /\ DOMAIN Opposite(e.book, o) = {}
            \/ o.order_type = IOC
                 /\ \A q \in DOMAIN Opposite(e.book, o) : ~Eligible(o, q)) =>
             /\ calls[t].trades = <<>>
             /\ BookOf(t) = e.book
             /\ levels = e.levels
             /\ order_cache = e.cache

\* add_order has returned for an IOC order that found makers on the opposite
\* side, none of them eligible, and orders resting on its own side
C13_Witness ==
    \E t \in Callers :
      /\ calls[t].pc = "ret"
      /\ LET o == submitted[calls[t].order]
             e == calls[t].entry
         IN /\ o.order_type = IOC
            /\ DOMAIN Opposite(e.book, o) # {}
            /\ DOMAIN OwnSide(e.book, o) # {}
            /\ \A q \in DOMAIN Opposite(e.book, o) : ~Eligible(o, q)
            /\ calls[t].trades = <<>>

\* ---------------------------------------------------------------- C14
\* C14: orders for one symbol are matched in the order process_order
\* accepted them: when process_order(A) was entered before process_order(B),
\* add_order(B) has not begun while add_order(A) is still waiting for its
\* worker thread, and in every queue the orders stand in acceptance order.
C14_AcceptanceOrder ==
    /\ \A t, u \in Callers :
         (/\ calls[t].order # 0 /\ calls[u].order # 0
          /\ calls[t].order < calls[u].order
          /\ OrderOf(t).symbol = OrderOf(u).symbol
          /\ calls[u].pc # "start") =>
           calls[t].pc # "start"
    /\ \A s \in DOMAIN order_books :
         \A l \in BookLevels(order_books[s]) :
           \A i, j \in 1..Len(levels[l].orders) :
             i < j => levels[l].orders[i] < levels[l].orders[j]

\* ---------------------------------------------------------------- C18
\* C18: an IOC or FOK order without a price is rejected as invalid: it never
\* reaches matching (no add_order runs or has run for it), produces no
\* trade, and the books, the PriceLevel and Order objects, the trade
\* histories and processed_orders stay as process_order found them.
Priceless(o) == o.order_type \in {IOC, FOK} /\ o.price = None

EngineAsBefore(t) ==
    /\ order_books = calls[t].before.order_books
    /\ levels = calls[t].before.levels
    /\ trade_history = calls[t].before.trade_history
    /\ order_cache = calls[t].before.order_cache
    /\ processed_orders = calls[t].before.processed_orders

C18_PricelessRejected ==
    /\ \A t \in Callers :
         (calls[t].order # 0 /\ Priceless(submitted[calls[t].order])) =>
           /\ calls[t].pc \notin InAddOrder \cup {"ret"}
           /\ calls[t].trades = <<>>
           /\ EngineAsBefore(t)
    /\ \A id \in DOMAIN order_cache : ~Priceless(submitted[id])

\* ---------------------------------------------------------------- C19
\* C19: a failed submit leaves no partial state: when process_order ends
\* with an error (add_order has raised and the await passes the error on),
\* the symbol-to-book map, every book, the trade histories, the order cache
\* and processed_orders are as they were before the call.
C19_NoPartialState ==
    \A t \in Callers : calls[t].pc = "raised" => EngineAsBefore(t)

\* ---------------------------------------------------------------- C15
\* C15: a snapshot never observes a book in the middle of a match: every
\* get_order_book_state call returns without raising, and a returned
\* snapshot is one of a book between two complete add_order calls: best_bid
\* and best_ask are the prices of the first bids and asks rows (absent for
\* an empty side), and no row shows a level without quantity.
C15_SnapshotQuiescent ==
    reader.pc = "done" =>
      /\ ~reader.raised
      /\ reader.result # None =>
           LET r == reader.result[1] IN
           /\ r.best_bid = IF r.bids = <<>> THEN None ELSE Some(r.bids[1][1])
           /\ r.best_ask = IF r.asks = <<>> THEN None ELSE Some(r.asks[1][1])
           /\ \A i \in 1..Len(r.bids) : r.bids[i][2] # str(0)
           /\ \A i \in 1..Len(r.asks) : r.asks[i][2] # str(0)

\* ---------------------------------------------------------------- C16
\* C16: processed_orders never decreases and, whenever no process_order
\* call is in flight, equals the number of process_order calls that
\* completed (returned a trade list, empty or not), also when the calls
\* complete on several threads.
C16_ProcessedOrders ==
    [][/\ processed_orders' >= processed_orders
       /\ (\A t \in Callers : calls'[t].pc = "idle") =>
            processed_orders' =
              Cardinality({id \in DOMAIN results' : results'[id] # None})]_vars

\* ---------------------------------------------------------------- C17
\* C17: the trade history of a symbol is append-only and is the
\* concatenation, in the order the orders were matched, of the trade lists
\* process_order returned: a step leaves it alone or appends the whole list
\* one call returns, and since an order is matched as taker before it can
\* rest and be matched as maker, no trade naming an order as taker stands
\* behind a trade naming it as maker.
C17_TradeHistory ==
    [][\A s \in DOMAIN trade_history :
         /\ s \in DOMAIN trade_history'
         /\ \/ trade_history'[s] = trade_history[s]
            \/ \E id \in (DOMAIN results') \ (DOMAIN results) :
                 /\ results'[id] # None
                 /\ submitted[id].symbol = s
                 /\ trade_history'[s] = trade_history[s] \o results'[id][1]
         /\ \A k, j \in 1..Len(trade_history'[s]) :
              k < j => trade_history'[s][j].taker_order_id #
                         trade_history'[s][k].maker_order_id]_vars

\* ---------------------------------------------------------------- C20
\* C20: for every submit that modifies the book, exactly one book-update
\* event for its symbol has been dispatched when the caller receives the
\* trade list: process_order has called broadcast_order_book_update once
\* for that submit, after add_order has updated the book.
Modified(t) ==
    \/ BookOf(t) # calls[t].entry.book
    \/ levels # calls[t].entry.levels
    \/ order_cache # calls[t].entry.cache

C20_BookUpdateEvent ==
    [][\A t \in Callers :
         (calls[t].pc = "ret" /\ calls'[t].pc = "idle" /\ Modified(t)) =>
           Cardinality({i \in 1..Len(hook_calls') :
                          hook_calls'[i] = [hook |-> "broadcast_order_book_update",
                                            symbol |-> OrderOf(t).symbol,
                                            order_id |-> calls[t].order]}) = 1]_vars

\* ---------------------------------------------------------------- C21
\* C21: for every trade a submit produces, exactly one trade event carrying
\* that trade has been dispatched to the post-trade hook when the caller
\* receives the trade list, in the order the trades were produced:
\* process_order has called broadcast_trade once per trade of the list.
TradeEventsOf(hooks, id) ==
    LET IsTradeEvent(h) == h.hook = "broadcast_trade" /\ h.order_id = id
    IN SelectSeq(hooks, IsTradeEvent)

C21_TradeEvents ==
    [][\A t \in Callers :
         (calls[t].pc = "ret" /\ calls'[t].pc = "idle") =>
           TradeEventsOf(hook_calls', calls[t].order) =
             [i \in 1..Len(calls[t].trades) |->
                [hook |-> "broadcast_trade", order_id |-> calls[t].order,
                 trade |-> calls[t].trades[i]]]]_vars

\* ---------------------------------------------------------------- C22
\* C22: after every add_order returns, the cached best_bid is the maximum
\* price among the bid levels with a non-empty queue and the cached best_ask
\* the minimum price among the ask levels with a non-empty queue, each
\* absent when its side has no such level.
LivePrices(side_map) == {p \in DOMAIN side_map : levels[side_map[p]].orders # <<>>}

C22_BboIsBestLive ==
    Returned =>
      \A s \in DOMAIN order_books :
        LET b == order_books[s] IN
        /\ b.best_bid = IF LivePrices(b.bids) = {} THEN None
                        ELSE Some(MaxOf(LivePrices(b.bids)))
        /\ b.best_ask = IF LivePrices(b.asks) = {} THEN None
                        ELSE Some(MinOf(LivePrices(b.asks)))

\* add_order has returned after a sweep that emptied the best ask level and
\* left a worse one, with bids resting too
C22_Witness ==
    \E t \in Callers :
      /\ calls[t].pc = "ret"
      /\ calls[t].trades # <<>>
      /\ calls[t].entry.book.best_ask # None
      /\ BookOf(t).best_ask # None
      /\ BookOf(t).best_ask # calls[t].entry.book.best_ask
      /\ BookOf(t).best_bid # None

\* ---------------------------------------------------------------- C23
\* C23: get_depth(n) returns for each side at most n rows, which are exactly
\* the best n live price levels of the side: the row at position i is the
\* live level with i - 1 live levels at a better price (so bids descend
\* strictly, asks ascend strictly and no better level is left out), and its
\* quantity is the level's current total_quantity.
BestRows(rows, side_map, n, sign) ==
    LET live == LivePrices(side_map)
    IN /\ Len(rows) <= n
       /\ Len(rows) = Min(n, Cardinality(live))
       /\ \A i \in 1..Len(rows) :
            \E p \in live :
              /\ rows[i] = <<str(p), str(levels[side_map[p]].total_quantity)>>
              /\ Cardinality({q \in live : sign * q < sign * p}) = i - 1

C23_DepthBestLevels ==
    [][(reader'.taken = reader.taken + 1
          /\ reader'.symbol \in DOMAIN order_books) =>
         /\ ~reader'.raised
         /\ reader'.result # None
         /\ LET r == reader'.result[1]
                b == order_books[reader'.symbol]
            IN /\ BestRows(r.bids, b.bids, reader'.depth, -1)
               /\ BestRows(r.asks, b.asks, reader'.depth, 1)]_vars

\* a snapshot of depth 1 of a side holding two levels, the best of them
\* partly filled by the last submit
C23_Witness ==
    /\ reader.pc = "done"
    /\ reader.result # None
    /\ reader.depth = 1
    /\ calls[1].pc = "idle"
    /\ \E s \in DOMAIN order_books :
         /\ Cardinality(DOMAIN order_books[s].asks) = 2
         /\ reader.symbol = s
         /\ Len(reader.result[1].asks) = 1
         /\ reader.result[1].asks[1][2] = str(1)
         /\ \E id \in RestingIn(s) :
              /\ order_cache[id].quantity < submitted[id].quantity
              /\ reader.result[1].asks[1][1] = str(order_cache[id].price[1])

\* ---------------------------------------------------------------- C24
\* C24: get_order_book_state(symbol) returns absent exactly when no order
\* for the symbol has ever been submitted: once a process_order for the
\* symbol has started, even one that produces no trade and rests nothing,
\* the call returns a snapshot for that symbol.
C24_AbsentIffNeverSeen ==
    [][reader'.taken = reader.taken + 1 =>
         LET seen == \E i \in 1..Len(submitted) :
                        submitted[i].symbol = reader'.symbol
         IN /\ ~reader'.raised
            /\ (reader'.result = None) <=> ~seen
            /\ seen => reader'.result[1].symbol = reader'.symbol]_vars

\* a snapshot was returned for a symbol whose only process_order, for a
\* MARKET order that found no maker, has started and not yet run add_order,
\* while the other symbol has a resting order
C24_Witness ==
    /\ reader.pc = "done"
    /\ reader.result # None
    /\ Len(submitted) = 2
    /\ submitted[1].symbol # reader.symbol
    /\ submitted[2].symbol = reader.symbol
    /\ submitted[2].order_type = MARKET
    /\ calls[1].pc = "start"
    /\ RestingIn(submitted[1].symbol) # {}
    /\ reader.result[1].bids = <<>> /\ reader.result[1].asks = <<>>

\* ---------------------------------------------------------------- C25
\* C25: a MARKET order carrying a price is accepted and matched exactly as
\* the same MARKET order without a price: two books in the same state, one
\* given the order without and one with a price, return the same trades
\* (prices, quantities, makers) and end in the same state, so the price
\* never stops the sweep. Orders, levels and trades of the second book are
\* those of the first with the next order id and the other symbol.
TwinTrades(trades) ==
    [i \in 1..Len(trades) |->
       [trades[i] EXCEPT !.symbol = PricedSymbol, !.maker_order_id = @ + 1,
                         !.taker_order_id = @ + 1]]

TwinSide(side_map) == [q \in DOMAIN side_map |-> side_map[q] + 1]

C25_PricedMarketSame ==
    (calls[1].pc = "idle" /\ Len(submitted) > 0 /\ Len(submitted) % 2 = 0) =>
      LET a == order_books[PlainSymbol]
          b == order_books[PricedSymbol]
      IN /\ b = [a EXCEPT !.bids = TwinSide(@), !.asks = TwinSide(@)]
         /\ \A l \in BookLevels(a) :
              /\ levels[l + 1] =
                   [levels[l] EXCEPT !.orders = [i \in DOMAIN @ |-> @[i] + 1]]
              /\ \A i \in 1..Len(levels[l].orders) :
                   LET id == levels[l].orders[i] IN
                   order_cache[id + 1] =
                     [order_cache[id] EXCEPT !.order_id = id + 1,
                                             !.symbol = PricedSymbol]
         /\ trade_history[PricedSymbol] = TwinTrades(trade_history[PlainSymbol])
         /\ \A id \in DOMAIN results :
              id % 2 = 1 =>
                /\ results[id] # None
                /\ results[id + 1] = Some(TwinTrades(results[id][1]))

\* a BUY MARKET order with a price below the second ask level has swept
\* both levels
C25_Witness ==
    /\ calls[1].pc = "idle"
    /\ Len(submitted) = TwinMaxOrders
    /\ LET o == submitted[TwinMaxOrders] IN
       /\ o.order_type = MARKET /\ o.side = BUY /\ o.price # None
       /\ o.order_id \in DOMAIN results
       /\ results[o.order_id] # None
       /\ Len(results[o.order_id][1]) = 2
       /\ results[o.order_id][1][2].price > o.price[1]
       /\ o.price[1] > 0

\* ---------------------------------------------------------------- C26
\* C26: an order with quantity <= 0 is rejected at construction and can
\* never be submitted: every Order(...) with such a quantity raises, no
\* order process_order has accepted has a quantity <= 0, and the failed
\* construction leaves books, levels, orders, trade histories and counters
\* as they were, so no trade and no book change results from it.
C26_NonPositiveRejected ==
    [][/\ \A o \in OrderCandidates : o.quantity <= 0 => ~Order_post_init(o)
       /\ \A i \in 1..Len(submitted') : submitted'[i].quantity > 0
       /\ rejected' # rejected =>
            UNCHANGED <<order_books, levels, order_cache, trade_history,
                        processed_orders, submitted, calls>>]_vars

\* the construction of a MARKET order with quantity 0 has raised beside a
\* book that holds a resting order
C26_Witness ==
    /\ rejected # <<>>
    /\ rejected[1].quantity = 0
    /\ rejected[1].order_type = MARKET
    /\ Len(submitted) = CtorMaxOrders
    /\ calls[1].pc = "idle"
    /\ \E s \in DOMAIN order_books : RestingIn(s) # {}

\* ---------------------------------------------------------------- C27
\* C27: in every book state between add_order calls, every key of the bid
\* and ask maps has a level with a non-empty queue and total_quantity > 0,
\* and every queued order has remaining quantity > 0; a level whose queue
\* an add_order call empties has left the map and the heap of its side when
\* that call returns.
HeapPrices(heap) == {heap[i] : i \in 1..Len(heap)}

C27_NoEmptyLevel ==
    /\ Returned =>
         \A s \in DOMAIN order_books :
           \A l \in BookLevels(order_books[s]) :
             /\ levels[l].orders # <<>>
             /\ levels[l].total_quantity > 0
             /\ \A i \in 1..Len(levels[l].orders) :
                  order_cache[levels[l].orders[i]].quantity > 0
    /\ \A t \in Callers :
         calls[t].pc = "ret" =>
           LET e == calls[t].entry
               b == BookOf(t)
           IN /\ \A q \in DOMAIN e.book.bids :
                   levels[e.book.bids[q]].orders = <<>> =>
                     q \notin DOMAIN b.bids /\ -q \notin HeapPrices(b.bid_prices)
              /\ \A q \in DOMAIN e.book.asks :
                   levels[e.book.asks[q]].orders = <<>> =>
                     q \notin DOMAIN b.asks /\ q \notin HeapPrices(b.ask_prices)

\* add_order has returned after emptying one ask level and filling the head
\* of the next in part
C27_Witness ==
    \E t \in Callers :
      /\ calls[t].pc = "ret"
      /\ Len(calls[t].trades) = 2
      /\ \E q \in DOMAIN calls[t].entry.book.asks :
           levels[calls[t].entry.book.asks[q]].orders = <<>>
      /\ \E q \in DOMAIN BookOf(t).asks :
           LET l == levels[BookOf(t).asks[q]] IN
           /\ l.orders # <<>>
           /\ order_cache[Head(l.orders)].quantity <
                submitted[Head(l.orders)].quantity

\* ---------------------------------------------------------------- C28
\* C28: a maker filled only in part keeps its place at the head of its
\* level: a trade of quantity q below the maker's remaining quantity leaves
\* the maker first in the same level with its remaining quantity and the
\* level's total_quantity reduced by q; it is still the head of the level of
\* its price when add_order returns, and the next taker on the opposite
\* side whose price makes the maker's price eligible trades against that
\* maker first.
LastMaker(trades) == trades[Len(trades)].maker_order_id

\* add_order has returned and the maker of its last trade has quantity left
PartialMakerStaysHead(t) ==
    (calls[t].pc = "ret" /\ calls[t].trades # <<>>
       /\ order_cache[LastMaker(calls[t].trades)].quantity > 0) =>
      LET m == order_cache[LastMaker(calls[t].trades)]
          own == OwnSide(BookOf(t), m)
      IN /\ m.price[1] \in DOMAIN own
         /\ Head(levels[own[m.price[1]]].orders) = m.order_id

\* add_order has returned for the order that follows one whose last trade
\* left its maker with quantity
NextTakerMeetsMaker(t) ==
    (calls[t].pc = "ret" /\ calls[t].order > 1
       /\ (calls[t].order - 1) \in DOMAIN results
       /\ results[calls[t].order - 1] # None
       /\ results[calls[t].order - 1][1] # <<>>) =>
      LET o == submitted[calls[t].order]
          m == calls[t].entry.cache[LastMaker(results[calls[t].order - 1][1])]
      IN (m.quantity > 0 /\ m.symbol = o.symbol /\ m.side # o.side
            /\ Eligible(o, m.price[1])) =>
           /\ calls[t].trades # <<>>
           /\ calls[t].trades[1].maker_order_id = m.order_id

C28_PartialMakerKeepsHead ==
    [][\A t \in Callers :
         /\ Len(calls'[t].trades) = Len(calls[t].trades) + 1 =>
              LET tr == calls'[t].trades[Len(calls'[t].trades)]
                  m == tr.maker_order_id
                  l == calls[t].level
              IN tr.quantity < order_cache[m].quantity =>
                   /\ Head(levels'[l].orders) = m
                   /\ order_cache'[m].quantity = order_cache[m].quantity - tr.quantity
                   /\ levels'[l].total_quantity =
                        levels[l].total_quantity - tr.quantity
         /\ PartialMakerStaysHead(t)
         /\ NextTakerMeetsMaker(t)]_vars

\* ---------------------------------------------------------------- C29
\* C29: for every resting order, in every step of every later submit, its
\* price and side do not change, its remaining quantity does not increase
\* and changes only by the quantity of a trade produced in that step that
\* names it as maker, and it leaves the book only with remaining quantity 0.
C29_RestingOrderStable ==
    [][\A s \in DOMAIN order_books :
         \A id \in RestingIn(s) :
           /\ order_cache'[id].price = order_cache[id].price
           /\ order_cache'[id].side = order_cache[id].side
           /\ order_cache'[id].quantity <= order_cache[id].quantity
           /\ order_cache'[id].quantity # order_cache[id].quantity =>
                \E t \in Callers :
                  /\ Len(calls'[t].trades) = Len(calls[t].trades) + 1
                  /\ LET tr == calls'[t].trades[Len(calls'[t].trades)] IN
                     /\ tr.maker_order_id = id
                     /\ tr.quantity =
                          order_cache[id].quantity - order_cache'[id].quantity
           /\ id \notin RestingIn(s)' => order_cache'[id].quantity = 0]_vars

\* one resting order has been filled and has left the book, another has
\* been filled in part and rests with what is left
C29_Witness ==
    /\ Returned
    /\ \E s \in DOMAIN order_books :
         /\ \E id \in RestingIn(s) :
              /\ order_cache[id].quantity > 0
              /\ order_cache[id].quantity < submitted[id].quantity
              /\ MakerQty(id) > 0
         /\ \E id \in 1..Len(submitted) :
              /\ id \notin RestingIn(s)
              /\ submitted[id].symbol = s
              /\ MakerQty(id) = submitted[id].quantity

\* ---------------------------------------------------------------- C30
\* C30: with unique order ids, every resting order is in exactly one
\* price-level queue, exactly once, and that level is the one on the
\* order's own side at the order's own price in the book of the order's
\* symbol; a LIMIT order with quantity left after its add_order is resting.
SideMap(b, side) == IF side = BUY THEN b.bids ELSE b.asks

\* the (symbol, side, price) keys of the levels whose queue holds order id
Places(id) ==
    {pl \in (DOMAIN order_books) \X {BUY, SELL} \X Prices :
       /\ pl[3] \in DOMAIN SideMap(order_books[pl[1]], pl[2])
       /\ InList(levels[SideMap(order_books[pl[1]], pl[2])[pl[3]]].orders, id)}

C30_OneQueueOwnLevel ==
    \A id \in 1..Len(submitted) :
      LET o == submitted[id] IN
      /\ Places(id) # {} =>
           /\ Places(id) = {<<o.symbol, o.side, o.price[1]>>}
           /\ LET q == levels[SideMap(order_books[o.symbol], o.side)[o.price[1]]].orders
              IN Cardinality({i \in 1..Len(q) : q[i] = id}) = 1
           /\ \A l \in DOMAIN levels :
                InList(levels[l].orders, id) =>
                  l = SideMap(order_books[o.symbol], o.side)[o.price[1]]
      /\ (Returned /\ o.order_type = LIMIT
            /\ TakerQty(id) + MakerQty(id) < o.quantity) => Places(id) # {}

\* both books hold two orders in one bid queue and an order on the ask side
\* at another price
C30_Witness ==
    /\ Returned
    /\ \A s \in {PlainSymbol, PricedSymbol} :
         /\ s \in DOMAIN order_books
         /\ \E q \in DOMAIN order_books[s].bids :
              Len(levels[order_books[s].bids[q]].orders) = 2
         /\ DOMAIN order_books[s].asks # {}

\* ---------------------------------------------------------------- C31
\* C31: in every snapshot taken with depth >= 1, best_bid is absent exactly
\* when the bids list is empty and otherwise is the price of the first bids
\* row, and best_ask is absent exactly when the asks list is empty and
\* otherwise is the price of the first asks row, for every price, 0
\* included.
BestIsFirstRow(best, rows) ==
    /\ (best = None) <=> (rows = <<>>)
    /\ rows # <<>> => best = Some(rows[1][1])

C31_BestMatchesDepth ==
    [][(reader'.taken = reader.taken + 1 /\ reader'.depth >= 1
          /\ reader'.result # None) =>
         /\ BestIsFirstRow(reader'.result[1].best_bid, reader'.result[1].bids)
         /\ BestIsFirstRow(reader'.result[1].best_ask, reader'.result[1].asks)]_vars

\* ---------------------------------------------------------------- C32
\* C32: at most one OrderBook is ever created per symbol and a registered
\* book is never replaced, also when the first orders for a symbol arrive
\* on several threads: no step stores a book for a symbol that has one, no
\* order resting in the registered book leaves it with quantity left, and
\* no entry of the symbol's trade history is lost.
C32_OneBookPerSymbol ==
    [][\A s \in Symbols :
         /\ s \in DOMAIN order_books =>
              /\ DOMAIN order_books' = DOMAIN order_books
              /\ \A id \in RestingIn(s) :
                   id \in RestingIn(s)' \/ order_cache'[id].quantity = 0
         /\ s \in DOMAIN trade_history =>
              /\ s \in DOMAIN trade_history'
              /\ Len(trade_history'[s]) >= Len(trade_history[s])
              /\ SubSeq(trade_history'[s], 1, Len(trade_history[s])) =
                   trade_history[s]]_vars

\* ---------------------------------------------------------------- C33
\* C33: an IOC or FOK order posted to /order with a price reaches the engine
\* with that price as its limit and trades as the same order given to
\* process_order directly: the routed order carries the price of the
\* request, and on books in the same state the routed call returns the
\* trades of the direct call (with the routed book's symbol and order ids).
RoutedTrades(trades) ==
    [i \in 1..Len(trades) |->
       [trades[i] EXCEPT !.symbol = RoutedSymbol, !.maker_order_id = @ + 1,
                         !.taker_order_id = @ + 1]]

C33_RestKeepsLimit ==
    \A id \in 1..Len(submitted) :
      (id % 2 = 0 /\ submitted[id - 1].order_type \in {IOC, FOK}) =>
        /\ submitted[id].price = submitted[id - 1].price
        /\ id \in DOMAIN results =>
             /\ results[id] # None
             /\ results[id] = Some(RoutedTrades(results[id - 1][1]))

\* ---------------------------------------------------------------- C34
\* C34: a process_order call for symbol X leaves the book, the BBO, the
\* levels, the resting orders and the trade history of every other symbol
\* as they were in each of its steps, creates no book or history for
\* another symbol, and every trade it returns has symbol X, the call's
\* order as taker and an order of symbol X as maker.
C34_SymbolIsolation ==
    [][LET id == IF calls[1].order # 0 THEN calls[1].order ELSE calls'[1].order
       IN id # 0 =>
            LET X == submitted'[id].symbol IN
            /\ \A s \in LookupSymbols \ {X} :
                 /\ (s \in DOMAIN order_books') = (s \in DOMAIN order_books)
                 /\ (s \in DOMAIN trade_history') = (s \in DOMAIN trade_history)
                 /\ s \in DOMAIN order_books =>
                      /\ order_books'[s] = order_books[s]
                      /\ trade_history'[s] = trade_history[s]
                      /\ \A l \in BookLevels(order_books[s]) :
                           /\ levels'[l] = levels[l]
                           /\ \A i \in 1..Len(levels[l].orders) :
                                order_cache'[levels[l].orders[i]] =
                                  order_cache[levels[l].orders[i]]
            /\ (id \in DOMAIN results' /\ results'[id] # None) =>
                 \A i \in 1..Len(results'[id][1]) :
                   LET tr == results'[id][1][i] IN
                   /\ tr.symbol = X
                   /\ tr.taker_order_id = id
                   /\ submitted[tr.maker_order_id].symbol = X]_vars

\* a call has returned a trade for one symbol while the book of the other
\* symbol holds a resting order
C34_Witness ==
    /\ calls[1].pc = "idle"
    /\ \E id \in DOMAIN results :
         /\ results[id] # None
         /\ results[id][1] # <<>>
         /\ \E s \in DOMAIN order_books :
              /\ s # submitted[id].symbol
              /\ RestingIn(s) # {}
              /\ order_books[s].best_bid # None

\* ---------------------------------------------------------------- C35
\* C35: on each side the price heap and the level map describe the same
\* prices: between add_order calls the heap holds every key of the map
\* exactly once and nothing else (bid prices negated), the heap is ordered
\* as a heap, and after a level removal the root of the heap is the best
\* price left on the side.
IsHeap(heap) == \A i \in 2..Len(heap) : heap[i \div 2] <= heap[i]

HeapIsMap(heap, side_map, sign) ==
    /\ Len(heap) = Cardinality(DOMAIN side_map)
    /\ HeapPrices(heap) = {sign * q : q \in DOMAIN side_map}
    /\ IsHeap(heap)

RootIsBest(heap, side_map, sign) ==
    /\ (heap = <<>>) = (DOMAIN side_map = {})
    /\ heap # <<>> => /\ sign * heap[1] \in DOMAIN side_map
                      /\ \A q \in DOMAIN side_map : heap[1] <= sign * q

C35_HeapMatchesMap ==
    [][/\ Returned' =>
            \A s \in DOMAIN order_books' :
              /\ HeapIsMap(order_books'[s].bid_prices, order_books'[s].bids, -1)
              /\ HeapIsMap(order_books'[s].ask_prices, order_books'[s].asks, 1)
       /\ \A t \in Callers :
            calls[t].pc = "unheap" =>
              LET b == order_books'[calls[t].book] IN
              /\ RootIsBest(b.bid_prices, b.bids, -1)
              /\ RootIsBest(b.ask_prices, b.asks, 1)]_vars

\* the best of three ask levels, opened at prices 0, 2, 1 in that order,
\* has been removed and the level at price 1 is at the root of the heap
C35_Witness ==
    /\ calls[1].pc = "outer_end"
    /\ Len(submitted) = HeapMaxOrders
    /\ \A i \in 1..3 : submitted[i].side = SELL /\ submitted[i].order_type = LIMIT
    /\ submitted[1].price = Some(0)
    /\ submitted[2].price = Some(2)
    /\ submitted[3].price = Some(1)
    /\ BookOf(1).ask_prices = <<1, 2>>
    /\ DOMAIN BookOf(1).asks = {1, 2}

\* ---------------------------------------------------------------- C36
\* C36: every add_order call terminates: each iteration of the inner loop
\* trades a positive quantity and either takes the head maker from its
\* level or brings the taker's remaining quantity to 0, the number of
\* iterations of a call is at most the number of orders resting on the
\* opposite side when the call began plus one, and a call that has been
\* handed to the pool returns.
OppositeOrders(entry, order) ==
    LET side_map == Opposite(entry.book, order)
        ids == UNION {{entry.levels[side_map[q]].orders[i] :
                         i \in 1..Len(entry.levels[side_map[q]].orders)} :
                      q \in DOMAIN side_map}
    IN Cardinality(ids)

IterationProgress(t) ==
    /\ Len(calls'[t].trades) = Len(calls[t].trades) + 1 =>
         LET tr == calls'[t].trades[Len(calls'[t].trades)] IN
         /\ tr.quantity > 0
         /\ \/ order_cache'[tr.maker_order_id].quantity = 0
            \/ calls'[t].remaining_quantity = 0
    /\ (calls[t].pc = "cleanup"
          /\ order_cache[calls[t].resting_order].quantity = 0) =>
         /\ Head(levels[calls[t].level].orders) = calls[t].resting_order
         /\ ~InList(levels'[calls[t].level].orders, calls[t].resting_order)
    /\ calls'[t].pc \in InAddOrder =>
         Len(calls'[t].trades) <=
           OppositeOrders(calls'[t].entry, order_cache'[calls'[t].order]) + 1

C36_AddOrderTerminates ==
    /\ [][\A t \in Callers : IterationProgress(t)]_vars
    /\ \A t \in Callers : (calls[t].pc = "start") ~> (calls[t].pc = "ret")

\* add_order has returned after two iterations against the two makers of
\* the opposite side, the second of them filled in part
C36_Witness ==
    /\ calls[1].pc = "ret"
    /\ Len(calls[1].trades) = 2
    /\ OppositeOrders(calls[1].entry, OrderOf(1)) = 2
    /\ order_cache[calls[1].trades[2].maker_order_id].quantity > 0

\* ---------------------------------------------------------------- C37
\* C37: market data goes where the subscriptions say. broadcast_trade
\* reaches only connections whose trade subscription set holds the trade's
\* symbol, broadcast_order_book_update only connections whose order-book
\* subscription set holds the symbol; the set of a connection holds exactly
\* the symbols it has subscribed to on that channel and not unsubscribed
\* from since, whatever it did on the other channel; a connection whose
\* handle_connection has ended is in neither map and is sent nothing.
Named(member) ==
    IF member.kind = "absent" THEN {}
    ELSE IF member.kind = "str" THEN {member.string}
    ELSE {member.list[i] : i \in 1..Len(member.list)}

\* the symbols the requests of a connection leave subscribed on a channel
Wanted(requests, channel) ==
    {s \in LookupSymbols :
       \E i \in 1..Len(requests) :
         /\ requests[i].action = "subscribe_" \o channel
         /\ s \in Named(requests[i].symbols)
         /\ \A j \in (i + 1)..Len(requests) :
              ~(requests[j].action = "unsubscribe_" \o channel
                  /\ s \in Named(requests[j].symbols))}

C37_RoutingFollowsSubscriptions ==
    [][/\ \A c \in Conns :
            IF peers'.state[c] \in {"open", "closing"}
            THEN /\ c \in connections'
                 /\ subscriptions'[c] = Wanted(peers'.requests[c], "orderbook")
                 /\ trade_subscriptions'[c] = Wanted(peers'.requests[c], "trades")
            ELSE /\ c \notin connections'
                 /\ c \notin DOMAIN subscriptions'
                 /\ c \notin DOMAIN trade_subscriptions'
       /\ Len(peers'.sent) = Len(peers.sent) + 1 =>
            LET m == peers'.sent[Len(peers'.sent)] IN
            \A c \in m.to :
              /\ peers.state[c] = "open"
              /\ m.type = "trade_execution" =>
                   /\ c \in DOMAIN trade_subscriptions
                   /\ m.symbol \in trade_subscriptions[c]
              /\ m.type = "order_book_update" =>
                   /\ c \in DOMAIN subscriptions
                   /\ m.symbol \in subscriptions[c]]_vars

\* a trade of ETH-USDT has gone to the connection that subscribed to the
\* trades of both symbols and then unsubscribed from BTC-USDT, and not to
\* the other connection, which is open without a subscription
C37_Witness ==
    /\ peers.sent # <<>>
    /\ peers.sent[1] = [type |-> "trade_execution", symbol |-> "ETH-USDT",
                        to |-> {1}]
    /\ peers.state[2] = "open"
    /\ trade_subscriptions[1] = {"ETH-USDT"}
    /\ subscriptions[1] = {}
    /\ Len(peers.requests[1]) = 2
    /\ peers.requests[1][2].action = "unsubscribe_trades"

\* ---------------------------------------------------------------- C38
\* C38: remove_front_order on a non-empty level removes and returns the
\* head order and decreases total_quantity by the remaining quantity that
\* order has at that moment; on an empty level it returns absent and
\* changes nothing. In the matching loop the traded quantity has already
\* been subtracted, so removing a filled head leaves total_quantity as it
\* is.
C38_RemoveFrontOrder ==
    [][/\ Len(price_level'.returned) = Len(price_level.returned) + 1 =>
            LET level == price_level.level
                after == price_level'.level
                ret == price_level'.returned[Len(price_level'.returned)]
            IN IF level.orders = <<>>
               THEN ret = None /\ after = level
               ELSE /\ ret = Some(level.orders[1])
                    /\ after.orders = SubSeq(level.orders, 2, Len(level.orders))
                    /\ after.total_quantity =
                         level.total_quantity -
                           price_level.orders[level.orders[1]].quantity
                    /\ after.price = level.price
       /\ \A t \in Callers :
            (calls[t].pc = "cleanup" /\ calls'[t].pc # "cleanup"
               /\ order_cache[calls[t].resting_order].quantity = 0) =>
              /\ levels'[calls[t].level].orders = Tail(levels[calls[t].level].orders)
              /\ levels'[calls[t].level].total_quantity =
                   levels[calls[t].level].total_quantity]_vars

\* remove_front_order has returned a partly filled order from a level of
\* two, then the other order, then absent from the empty level, and the
\* matching loop has removed a filled head from a level that keeps quantity
C38_Witness ==
    /\ Len(price_level.returned) = 3
    /\ price_level.returned[1] = Some(1)
    /\ price_level.returned[2] = Some(2)
    /\ price_level.returned[3] = None
    /\ price_level.orders[1].quantity = 1
    /\ price_level.level.total_quantity = 0
    /\ calls[1].pc = "ret"
    /\ calls[1].trades # <<>>
    /\ order_cache[calls[1].trades[1].maker_order_id].quantity = 0

====
